---- MODULE Spec2Model ----
(***************************************************************************)
(* Queue-state and slot-scheduling engine of AppTwitter                    *)
(* (src/src/scheduler.py over the SQLite store of src/src/db.py).          *)
(*                                                                         *)
(* Time is a tick counter.  A calendar day is TicksPerDay ticks long and   *)
(* the two daily slots (POST_SLOT_MORNING, POST_SLOT_EVENING) sit at the   *)
(* ticks of a day listed in daily_slots, so that "now" can be before the   *)
(* morning slot, exactly on a slot and between the slots.                  *)
(*                                                                         *)
(* Every Database.execute call commits on its own (db.py:132-137), so one  *)
(* SQL statement is the unit of atomicity: the operations that issue one   *)
(* writing statement are one action; schedule_approved_tweets and          *)
(* mark_as_posted are one action per statement, run by a process of Procs, *)
(* and the statements of different processes interleave freely.            *)
(*                                                                         *)
(* created_at (DEFAULT CURRENT_TIMESTAMP) is kept as the insertion rank of *)
(* the row: the clock never runs backwards and rows of the same second     *)
(* come in rowid order.  updated_at is written but never read by the       *)
(* engine and is left out.  What a call returns is an operator over the    *)
(* state in which its last statement runs.                                 *)
(***************************************************************************)
EXTENDS Integers, Sequences, FiniteSets, TLC

\* ---------------------------------------------------------------- bounds
MaxQueue == 2          \* rows of tweet_queue
NumCandidates == 1     \* rows of tweet_candidates that may be enqueued
MaxTime == 1           \* last value of the clock
MaxPublished == 2      \* rows of tweets_publicados when mark_as_posted starts
MaxLogs == 1           \* rows of logs when mark_as_failed starts
TicksPerDay == 5       \* length of a calendar day in ticks
max_tweets_per_day == 1   \* MAX_TWEETS_PER_DAY as configured (default 2)

SoloMaxQueue == 3      \* rows of tweet_queue in the one-process runs
SoloMaxTime == 4       \* last value of the clock in the one-process runs
DupHead == 1           \* input texts stored before the generated series
MaxRuleStored == 2     \* rows of tweet_candidates in the validate runs
MaxTied == 2           \* first rows of tweet_candidates that may share a second
MaxGenStored == 3      \* rows of tweet_candidates with two generation processes
ExtraHeld == 2         \* held slots beyond those of the search horizon
SlotMaxNow == 4        \* last clock reading of the slot-search runs
LiveMaxQueue == 2      \* queue rows of the runs with fairness
LiveMaxTime == 1       \* clock reading the runs with fairness always reach
DualMaxQueue == 2      \* queue rows of the runs with two dispatchers
DualMaxTime == 3       \* last clock reading of the runs with two dispatchers
BatchHeld == 4         \* slots assigned before a batch run starts
BatchSize == 2         \* drafted entries of a batch run
BatchMaxNow == 2       \* last initial clock reading of the batch runs
RescheduleHeld == 2    \* slots assigned before a run with reschedules
RescheduleMaxAt == 6   \* last instant an operator reschedules to

Procs == {1, 2}        \* independent process invocations sharing the store
SoloProcs == {1}       \* the one process of the one-process runs

\* ------------------------------------------------------- program constants
NULL == -1                      \* scheduled_at TIMESTAMP, nullable
HorizonDays == 30               \* for _ in range(30)
daily_slots == <<1, 3>>         \* _parse_slots(): sorted clock times of a day
MAX_TWEETS_PER_DAY == 2         \* get_env_int("MAX_TWEETS_PER_DAY", 2)

Statuses == {"drafted", "approved", "scheduled", "posted", "failed", "skipped"}
Candidates == 1..NumCandidates
QueueIds == 1..(MaxQueue + 1)   \* ids a caller may pass; the last never exists
SoloQueueIds == 1..SoloMaxQueue

VARIABLES
    now,                 \* datetime.now()
    tweet_queue,         \* table tweet_queue: sequence of rows, id = index
    tweets_publicados,   \* table tweets_publicados: candidate_id of each row
    logs,                \* table logs: number of rows
    local,               \* per process: position and locals of its call
    tweet_candidates,    \* table tweet_candidates: content and content_hash
    text,                \* the text the generator has last handed to validate
    verdict              \* what validate returned for it

vars == <<now, tweet_queue, tweets_publicados, logs, local,
          tweet_candidates, text, verdict>>

\* The state of the generation side: stored candidates and the text in hand.
filt == <<tweet_candidates, text, verdict>>

store == <<tweet_queue, tweets_publicados, logs>>

\* ------------------------------------------------------------ date helpers
\* dt.date()
DateOf(dt) == dt \div TicksPerDay

\* datetime(date.year, date.month, date.day, h, m, 0) for slot k of the day
SlotAt(date, k) == date * TicksPerDay + daily_slots[k]

\* What a write yields when SQLite rejects it with sqlite3.IntegrityError
\* (a UNIQUE constraint failed): a one-row value that is no table content.
IntegrityError == <<[raised |-> "sqlite3.IntegrityError"]>>

\* ---------------------------------------------------------------- storage
Exists(id) == id \in 1..Len(tweet_queue)

\* WHERE status IN ('scheduled', 'posted') of idx_unique_slot
\* An index and counting queries without "status IN ('scheduled', 'posted')".
InSlotIndex_AnyStatus(row) == TRUE

InSlotIndex(row) == row.status \in {"scheduled", "posted"}

\* SlotConflict without idx_unique_slot: no write is ever rejected.
SlotConflict_NoIndex(q, id, newrow) == FALSE

\* The partial unique index idx_unique_slot: row id may take the values of
\* newrow only if no other indexed row holds the same non-null scheduled_at.
SlotConflict(q, id, newrow) ==
    /\ InSlotIndex(newrow)
    /\ newrow.scheduled_at # NULL
    /\ \E j \in 1..Len(q) :
          /\ j # id
          /\ InSlotIndex(q[j])
          /\ q[j].scheduled_at = newrow.scheduled_at

\* SELECT COUNT(*) FROM tweet_queue WHERE scheduled_at = ? AND status IN (..)
CountAtSlot(q, slot) ==
    Cardinality({j \in 1..Len(q) :
        q[j].scheduled_at = slot /\ InSlotIndex(q[j])})

\* SELECT COUNT(*) FROM tweet_queue WHERE DATE(scheduled_at) = ? AND status IN (..)
CountOnDay(q, date) ==
    Cardinality({j \in 1..Len(q) :
        /\ q[j].scheduled_at # NULL
        /\ DateOf(q[j].scheduled_at) = date
        /\ InSlotIndex(q[j])})

\* ------------------------------------------------- scheduler pure helpers
\* _get_slot_index: 0-based index of the slot whose clock time dt has, else -1
_get_slot_index(dt) ==
    LET hits == {i \in 1..Len(daily_slots) : dt % TicksPerDay = daily_slots[i]}
    IN  IF hits = {} THEN -1
        ELSE (CHOOSE i \in hits : \A j \in hits : i <= j) - 1

\* _get_next_day_slot: first slot of the day after dt
_get_next_day_slot(dt) == SlotAt(DateOf(dt) + 1, 1)

\* _get_next_slot_after that takes the day's first slot again instead of
\* moving to the next day after the last slot.
_get_next_slot_after_SameDay(dt) ==
    LET current_slot_idx == _get_slot_index(dt)
    IN  IF current_slot_idx < Len(daily_slots) - 1
        THEN SlotAt(DateOf(dt), current_slot_idx + 2)
        ELSE SlotAt(DateOf(dt), 1)

\* _get_next_slot_after: the next slot of the same day, else the next day's first
_get_next_slot_after(dt) ==
    LET current_slot_idx == _get_slot_index(dt)
    IN  IF current_slot_idx < Len(daily_slots) - 1
        THEN SlotAt(DateOf(dt), current_slot_idx + 2)
        ELSE _get_next_day_slot(dt)

\* _can_schedule_on_day that takes a day for full one entry early.
_can_schedule_on_day_OffByOne(q, dt, cap) == CountOnDay(q, DateOf(dt)) < cap - 1

\* _can_schedule_on_day: the day of dt holds fewer than the cap
_can_schedule_on_day(q, dt, cap) == CountOnDay(q, DateOf(dt)) < cap

\* ORDER BY created_at ASC over a set of row ids (rowid order among equals)
RECURSIVE OrderByCreated(_, _)
OrderByCreated(q, S) ==
    IF S = {} THEN <<>>
    ELSE LET first == CHOOSE a \in S : \A b \in S :
                          \/ q[a].created_at < q[b].created_at
                          \/ (q[a].created_at = q[b].created_at /\ a <= b)
         IN  <<first>> \o OrderByCreated(q, S \ {first})

\* SelectApproved without the status filter: every row never scheduled.
SelectApproved_AnyStatus(q) ==
    OrderByCreated(q, {j \in 1..Len(q) : q[j].scheduled_at = NULL})

\* SELECT id FROM tweet_queue WHERE status = 'approved'
\*   AND scheduled_at IS NULL ORDER BY created_at ASC
SelectApproved(q) ==
    OrderByCreated(q, {j \in 1..Len(q) :
        q[j].status = "approved" /\ q[j].scheduled_at = NULL})

\* SkipPast that passes over a slot only when slot < from_time, so that a
\* slot equal to the clock reading is taken.
RECURSIVE SkipPast_AtOrAfter(_, _, _)
SkipPast_AtOrAfter(date, k, from_time) ==
    IF SlotAt(date, k) >= from_time THEN <<date, k>>
    ELSE IF k < Len(daily_slots) THEN SkipPast_AtOrAfter(date, k + 1, from_time)
    ELSE SkipPast_AtOrAfter(date + 1, 1, from_time)

\* The inner loop of _get_next_available_slot up to its first store read:
\* slots with slot <= from_time are passed over without a query.
RECURSIVE SkipPast(_, _, _)
SkipPast(date, k, from_time) ==
    IF SlotAt(date, k) > from_time THEN <<date, k>>
    ELSE IF k < Len(daily_slots) THEN SkipPast(date, k + 1, from_time)
    ELSE SkipPast(date + 1, 1, from_time)

\* ---------------------------------------------------------- get_queue_stats
\* The first row of ORDER BY scheduled_at ASC LIMIT 1 over the rows with a
\* scheduled_at, whatever their status.
NextScheduled_AnyStatus(q) ==
    LET S == {j \in 1..Len(q) : q[j].scheduled_at # NULL}
    IN  IF S = {} THEN NULL
        ELSE q[CHOOSE a \in S : \A b \in S :
                  q[a].scheduled_at <= q[b].scheduled_at].scheduled_at

\* SELECT scheduled_at FROM tweet_queue WHERE status = 'scheduled'
\* ORDER BY scheduled_at ASC LIMIT 1; None (NULL) without a row. A NULL
\* scheduled_at sorts first in SQLite, as NULL does here.
NextScheduled(q) ==
    LET S == {j \in 1..Len(q) : q[j].status = "scheduled"}
    IN  IF S = {} THEN NULL
        ELSE q[CHOOSE a \in S : \A b \in S :
                  q[a].scheduled_at <= q[b].scheduled_at].scheduled_at

\* SELECT COUNT(*) FROM tweet_queue WHERE status = ?
CountStatus(q, status) ==
    Cardinality({j \in 1..Len(q) : q[j].status = status})

\* get_queue_stats, lines 217-251: the dictionary returned for the rows q.
\* "posted_today" counts tweets_publicados rows by posted_at, a column the
\* model does not keep; that entry is left out.
get_queue_stats(q) ==
    [k \in Statuses \cup {"next_scheduled"} |->
        IF k = "next_scheduled" THEN NextScheduled(q) ELSE CountStatus(q, k)]

\* ------------------------------------------------------------------- Init
IdleLocal ==
    [pc |-> "idle", approved |-> <<>>, i |-> 0, current_time |-> NULL,
     next_slot |-> NULL, scheduled_count |-> 0, scan_date |-> 0, scan_k |-> 0,
     queue_id |-> 0, assigned |-> <<>>, pending |-> <<>>, content |-> <<>>,
     stats |-> get_queue_stats(<<>>)]

\* No text has been handed to validate yet.
NoVerdict == [ok |-> FALSE, reason |-> "no text"]

Init ==
    /\ now = 0
    /\ tweet_queue = <<>>
    /\ tweets_publicados = <<>>
    /\ logs = 0
    /\ local = [p \in Procs |-> IdleLocal]
    /\ tweet_candidates = <<>>
    /\ text = <<>>
    /\ verdict = NoVerdict

\* ------------------------------------------------------- one-statement ops
\* The clock advances.
Tick ==
    /\ now < MaxTime
    /\ now' = now + 1
    /\ UNCHANGED <<filt, store, local>>

\* INSERT INTO tweet_queue (candidate_id, status) VALUES (?, 'drafted')
InsertQueueRow(q, candidate_id) ==
    Append(q, [candidate_id |-> candidate_id, status |-> "drafted",
               scheduled_at |-> NULL, created_at |-> Len(q) + 1])

\* add_to_queue(candidate_id, status="drafted")
add_to_queue(candidate_id) ==
    /\ Len(tweet_queue) < MaxQueue
    /\ tweet_queue' = InsertQueueRow(tweet_queue, candidate_id)
    /\ UNCHANGED <<filt, now, tweets_publicados, logs, local>>

\* An update that also clears the slot of the row.
SetStatus_ClearSlot(q, id, status) ==
    IF id \in 1..Len(q)
    THEN [q EXCEPT ![id].status = status, ![id].scheduled_at = NULL]
    ELSE q

\* UPDATE tweet_queue SET status = ? WHERE id = ?  (no row: nothing written)
SetStatus(q, id, status) ==
    IF id \in 1..Len(q) THEN [q EXCEPT ![id].status = status] ELSE q

\* cursor.rowcount of that update
RowCount(q, id) == IF id \in 1..Len(q) THEN 1 ELSE 0

\* approve_tweet(queue_id)
approve_tweet(queue_id) ==
    /\ tweet_queue' = SetStatus(tweet_queue, queue_id, "approved")
    /\ UNCHANGED <<filt, now, tweets_publicados, logs, local>>

\* approve_tweet: "if updated: return True" else False
approve_tweet_returns(queue_id) == RowCount(tweet_queue, queue_id) # 0

\* skip_tweet(queue_id)
skip_tweet(queue_id) ==
    /\ tweet_queue' = SetStatus(tweet_queue, queue_id, "skipped")
    /\ UNCHANGED <<filt, now, tweets_publicados, logs, local>>

\* skip_tweet: "if updated: return True" else False
skip_tweet_returns(queue_id) == RowCount(tweet_queue, queue_id) # 0

\* mark_as_failed without the db.log call.
mark_as_failed_NoLog(queue_id) ==
    /\ logs < MaxLogs
    /\ tweet_queue' = SetStatus(tweet_queue, queue_id, "failed")
    /\ UNCHANGED <<filt, now, tweets_publicados, logs, local>>

\* mark_as_failed(queue_id, error): the update, then db.log
mark_as_failed(queue_id) ==
    /\ logs < MaxLogs
    /\ tweet_queue' = SetStatus(tweet_queue, queue_id, "failed")
    /\ logs' = logs + 1
    /\ UNCHANGED <<filt, now, tweets_publicados, local>>

\* mark_as_failed: "return True", whatever the update matched
mark_as_failed_returns(queue_id) == TRUE

\* ------------------------------------------------ schedule_approved_tweets
\* Lines 91-108: the approved rows are read, the clock is read, and the slot
\* search starts at the first slot of today that is later than the clock.
\* Without approved rows the call returns 0 at once.
SchedFetch(p) ==
    /\ local[p].pc = "idle"
    /\ LET approved == SelectApproved(tweet_queue)
           start == SkipPast(DateOf(now), 1, now)
       IN  local' = [local EXCEPT ![p] =
             IF approved = <<>> THEN IdleLocal
             ELSE [IdleLocal EXCEPT
                     !.pc = "scan", !.approved = approved, !.i = 1,
                     !.current_time = now,
                     !.scan_date = start[1], !.scan_k = start[2]]]
    /\ UNCHANGED <<filt, now, store>>

\* _get_next_available_slot, one store read (lines 267-280): the slot under
\* the cursor is returned when no scheduled or posted row holds it, else the
\* cursor moves on; after HorizonDays days the fallback slot is returned.
SchedScan(p) ==
    /\ local[p].pc = "scan"
    /\ LET l == local[p]
           slot == SlotAt(l.scan_date, l.scan_k)
           lastOfDay == l.scan_k = Len(daily_slots)
           date2 == IF lastOfDay THEN l.scan_date + 1 ELSE l.scan_date
           k2 == IF lastOfDay THEN 1 ELSE l.scan_k + 1
           exhausted == date2 - DateOf(l.current_time) >= HorizonDays
       IN  local' = [local EXCEPT ![p] =
             IF CountAtSlot(tweet_queue, slot) > 0
             THEN IF exhausted
                  THEN [l EXCEPT !.pc = "check", !.scan_date = 0,
                                 !.scan_k = 0,
                                 !.next_slot = SlotAt(date2, 1)]
                  ELSE [l EXCEPT !.scan_date = date2, !.scan_k = k2]
             ELSE [l EXCEPT !.pc = "check", !.scan_date = 0, !.scan_k = 0,
                            !.next_slot = slot]]
    /\ UNCHANGED <<filt, now, store>>

\* Lines 112-114: the daily cap of the cursor's day is read; when the day is
\* full the cursor moves to the first slot of the next day.
SchedCheckWith(p, cap) ==
    /\ local[p].pc = "check"
    /\ LET l == local[p]
       IN  local' = [local EXCEPT ![p] =
             [l EXCEPT !.pc = "write",
                       !.next_slot =
                          IF _can_schedule_on_day(tweet_queue, l.next_slot, cap)
                          THEN l.next_slot
                          ELSE _get_next_day_slot(l.next_slot)]]
    /\ UNCHANGED <<filt, now, store>>

\* The check under the configured cap.
SchedCheck(p) == SchedCheckWith(p, max_tweets_per_day)

\* An update whose WHERE clause also matches the oldest row of the queue.
UpdateScheduled_AlsoOldest(q, id, slot) ==
    LET newrow == [q[id] EXCEPT !.scheduled_at = slot, !.status = "scheduled"]
    IN  IF SlotConflict(q, id, newrow) THEN IntegrityError
        ELSE [q EXCEPT ![id] = newrow, ![1].status = "scheduled"]

\* UPDATE tweet_queue SET scheduled_at = ?, status = 'scheduled' WHERE id = ?
\* under idx_unique_slot: the rows after the write, or IntegrityError.
UpdateScheduled(q, id, slot) ==
    LET newrow == [q[id] EXCEPT !.scheduled_at = slot, !.status = "scheduled"]
    IN  IF SlotConflict(q, id, newrow) THEN IntegrityError
        ELSE [q EXCEPT ![id] = newrow]

\* The write a process at "write" is about to issue.
PendingWrite(p) ==
    UpdateScheduled(tweet_queue, local[p].approved[local[p].i],
                    local[p].next_slot)

\* One transaction for the whole batch: the IntegrityError rolls back the
\* rows the call has written before.
SchedWrite_Rollback(p) ==
    /\ local[p].pc = "write"
    /\ LET l == local[p]
           written == PendingWrite(p)
       IN  IF written = IntegrityError
           THEN /\ tweet_queue' =
                      [j \in 1..Len(tweet_queue) |->
                          IF \E k \in 1..(l.i - 1) : l.approved[k] = j
                          THEN [tweet_queue[j] EXCEPT !.status = "approved",
                                                      !.scheduled_at = NULL]
                          ELSE tweet_queue[j]]
                /\ local' = [local EXCEPT ![p] = IdleLocal]
           ELSE /\ tweet_queue' = written
                /\ local' = [local EXCEPT ![p] =
                      IF l.i = Len(l.approved) THEN IdleLocal
                      ELSE [l EXCEPT
                             !.pc = "check",
                             !.i = l.i + 1,
                             !.scheduled_count = l.scheduled_count + 1,
                             !.assigned = Append(l.assigned, l.next_slot),
                             !.next_slot = _get_next_slot_after(l.next_slot)]]
    /\ UNCHANGED <<filt, now, tweets_publicados, logs>>

\* Lines 117-134: the row is written; an IntegrityError leaves the call (no
\* handler); else the count and the cursor advance, and after the last row
\* the count is returned.
SchedWrite(p) ==
    /\ local[p].pc = "write"
    /\ LET l == local[p]
           written == PendingWrite(p)
       IN  IF written = IntegrityError
           THEN /\ tweet_queue' = tweet_queue
                /\ local' = [local EXCEPT ![p] = IdleLocal]
           ELSE /\ tweet_queue' = written
                /\ local' = [local EXCEPT ![p] =
                      IF l.i = Len(l.approved) THEN IdleLocal
                      ELSE [l EXCEPT
                             !.pc = "check",
                             !.i = l.i + 1,
                             !.scheduled_count = l.scheduled_count + 1,
                             !.assigned = Append(l.assigned, l.next_slot),
                             !.next_slot = _get_next_slot_after(l.next_slot)]]
    /\ UNCHANGED <<filt, now, tweets_publicados, logs>>

\* schedule_approved_tweets, what the write of a process at "write" does to
\* its call: the IntegrityError leaves it (raised), the last row returns the
\* count (returned), else the loop goes on.
SchedWriteOutcome(p) ==
    LET rejected == PendingWrite(p) = IntegrityError
    IN  [raised |-> rejected,
         returned |-> ~rejected /\ local[p].i = Len(local[p].approved),
         count |-> IF rejected THEN local[p].scheduled_count
                   ELSE local[p].scheduled_count + 1]

\* --------------------------------------------------------- mark_as_posted
\* UPDATE tweet_queue SET status = 'posted' WHERE id = ? under idx_unique_slot
UpdatePosted(q, id) ==
    IF id \notin 1..Len(q) THEN q
    ELSE LET newrow == [q[id] EXCEPT !.status = "posted"]
         IN  IF SlotConflict(q, id, newrow) THEN IntegrityError
             ELSE [q EXCEPT ![id] = newrow]

\* Lines 178-183: the status write, committed on its own; an IntegrityError
\* leaves the call.
MarkPostedUpdate(p, queue_id) ==
    /\ local[p].pc = "idle"
    /\ Len(tweets_publicados) < MaxPublished
    /\ LET written == UpdatePosted(tweet_queue, queue_id)
       IN  IF written = IntegrityError
           THEN /\ tweet_queue' = tweet_queue
                /\ local' = [local EXCEPT ![p] = IdleLocal]
           ELSE /\ tweet_queue' = written
                /\ local' = [local EXCEPT ![p] = [IdleLocal EXCEPT
                      !.pc = "insert", !.queue_id = queue_id]]
    /\ UNCHANGED <<filt, now, tweets_publicados, logs>>

\* Lines 186-199: the row is read back; without a row the call returns False,
\* else one row of tweets_publicados is inserted for its candidate.
MarkPostedInsert(p) ==
    /\ local[p].pc = "insert"
    /\ tweets_publicados' =
          IF Exists(local[p].queue_id)
          THEN Append(tweets_publicados,
                      tweet_queue[local[p].queue_id].candidate_id)
          ELSE tweets_publicados
    /\ local' = [local EXCEPT ![p] = IdleLocal]
    /\ UNCHANGED <<filt, now, tweet_queue, logs>>

\* mark_as_posted: "if not queue_item: return False", else True
mark_as_posted_returns(p) == Exists(local[p].queue_id)

\* The process of a call in progress terminates (kill, power loss): what its
\* statements committed stays, the rest of the call never runs.
Crash(p) ==
    /\ local[p].pc # "idle"
    /\ local' = [local EXCEPT ![p] = IdleLocal]
    /\ UNCHANGED <<filt, now, store>>

\* ------------------------------------------------------ get_pending_tweets
\* ORDER BY q.scheduled_at ASC over a set of row ids (rowid order among equals)
RECURSIVE OrderByScheduled(_, _)
OrderByScheduled(q, S) ==
    IF S = {} THEN <<>>
    ELSE LET first == CHOOSE a \in S : \A b \in S :
                          \/ q[a].scheduled_at < q[b].scheduled_at
                          \/ (q[a].scheduled_at = q[b].scheduled_at /\ a <= b)
         IN  <<first>> \o OrderByScheduled(q, S \ {first})

\* get_pending_tweets with "scheduled_at < ?": a row due exactly now is left out.
get_pending_tweets_Strict(q, t) ==
    OrderByScheduled(q, {j \in 1..Len(q) :
        /\ q[j].status = "scheduled"
        /\ q[j].scheduled_at # NULL
        /\ q[j].scheduled_at < t})

\* get_pending_tweets (and the dispatcher's own copy of the query): ids of
\*   SELECT ... FROM tweet_queue q JOIN tweet_candidates c ON ...
\*   WHERE q.status = 'scheduled' AND q.scheduled_at <= ? ORDER BY q.scheduled_at
\* Every queue row is enqueued for a stored candidate and candidates are never
\* deleted, so the join drops no row; a NULL scheduled_at compares as unknown.
get_pending_tweets(q, t) ==
    OrderByScheduled(q, {j \in 1..Len(q) :
        /\ q[j].status = "scheduled"
        /\ q[j].scheduled_at # NULL
        /\ q[j].scheduled_at <= t})

\* ------------------------------------------- dispatcher (cli.py, run command)
\* A pass whose query lacks "AND q.scheduled_at <= ?".
DispatchFetch_AnyTime(p) ==
    /\ local[p].pc = "idle"
    /\ LET pending == OrderByScheduled(tweet_queue,
                          {j \in 1..Len(tweet_queue) :
                              /\ tweet_queue[j].status = "scheduled"
                              /\ tweet_queue[j].scheduled_at # NULL})
       IN  local' = [local EXCEPT ![p] =
             IF pending = <<>> THEN IdleLocal
             ELSE [IdleLocal EXCEPT !.pc = "publish", !.pending = pending,
                                    !.i = 1]]
    /\ UNCHANGED <<filt, now, store>>

\* publish_twitter_pending, lines 492-509: the due rows are read; without
\* any the pass returns 0.
DispatchFetch(p) ==
    /\ local[p].pc = "idle"
    /\ LET pending == get_pending_tweets(tweet_queue, now)
       IN  local' = [local EXCEPT ![p] =
             IF pending = <<>> THEN IdleLocal
             ELSE [IdleLocal EXCEPT !.pc = "publish", !.pending = pending,
                                    !.i = 1]]
    /\ UNCHANGED <<filt, now, store>>

\* A pass that stops after the row it has just handled.
DispatchAdvance_Stop(l) == IdleLocal

\* The locals of a pass after it is done with row i of its list.
DispatchAdvance(l) ==
    IF l.i = Len(l.pending) THEN IdleLocal
    ELSE [l EXCEPT !.pc = "publish", !.i = l.i + 1, !.queue_id = 0]

\* Lines 514-540: the platform call succeeds (ok) or not; on success
\* mark_as_posted starts with its status write, else mark_as_failed runs.
\* A pass that does not record a failed platform call: the row stays
\* scheduled and the pass goes on.
DispatchPublishWith_NoMark(p, ok, maxPublished, maxLogs) ==
    /\ local[p].pc = "publish"
    /\ LET l == local[p]
           id == l.pending[l.i]
       IN  IF ok
           THEN /\ Len(tweets_publicados) < maxPublished
                /\ LET written == UpdatePosted(tweet_queue, id)
                   IN  IF written = IntegrityError
                       THEN /\ tweet_queue' = tweet_queue
                            /\ local' = [local EXCEPT ![p] = IdleLocal]
                       ELSE /\ tweet_queue' = written
                            /\ local' = [local EXCEPT ![p] =
                                  [l EXCEPT !.pc = "dinsert", !.queue_id = id]]
                /\ UNCHANGED <<filt, now, tweets_publicados, logs>>
           ELSE /\ local' = [local EXCEPT ![p] = DispatchAdvance(l)]
                /\ UNCHANGED <<filt, now, store>>

\* maxPublished and maxLogs cap the two tables that only grow.
DispatchPublishWith(p, ok, maxPublished, maxLogs) ==
    /\ local[p].pc = "publish"
    /\ LET l == local[p]
           id == l.pending[l.i]
       IN  IF ok
           THEN /\ Len(tweets_publicados) < maxPublished
                /\ LET written == UpdatePosted(tweet_queue, id)
                   IN  IF written = IntegrityError
                       THEN /\ tweet_queue' = tweet_queue
                            /\ local' = [local EXCEPT ![p] = IdleLocal]
                       ELSE /\ tweet_queue' = written
                            /\ local' = [local EXCEPT ![p] =
                                  [l EXCEPT !.pc = "dinsert", !.queue_id = id]]
                /\ UNCHANGED <<filt, now, tweets_publicados, logs>>
           ELSE /\ logs < maxLogs
                /\ tweet_queue' = SetStatus(tweet_queue, id, "failed")
                /\ logs' = logs + 1
                /\ local' = [local EXCEPT ![p] = DispatchAdvance(l)]
                /\ UNCHANGED <<filt, now, tweets_publicados>>

DispatchPublish(p, ok) == DispatchPublishWith(p, ok, MaxPublished, MaxLogs)

\* mark_as_posted called by the pass, lines 186-199 of scheduler.py: the
\* tweets_publicados row; then the pass goes on with its next row.
DispatchInsert(p) ==
    /\ local[p].pc = "dinsert"
    /\ tweets_publicados' =
          IF Exists(local[p].queue_id)
          THEN Append(tweets_publicados,
                      tweet_queue[local[p].queue_id].candidate_id)
          ELSE tweets_publicados
    /\ local' = [local EXCEPT ![p] = DispatchAdvance(local[p])]
    /\ UNCHANGED <<filt, now, tweet_queue, logs>>

\* get_queue_stats as called by the commands (cli.py:239, 749), on a store that no other
\* process writes while its SELECTs run; the dictionary is kept in the
\* process's locals.
GetStats(p) ==
    /\ local[p].pc = "idle"
    /\ local' = [local EXCEPT ![p] =
          [IdleLocal EXCEPT !.stats = get_queue_stats(tweet_queue)]]
    /\ UNCHANGED <<filt, now, store>>

\* ------------------------------------------------------- one-process runs
\* One installation with the default cap: the operator enqueues, approves
\* and skips, "schedule" and "run" are invoked one after the other by the
\* same process, and the clock runs through one day.
SoloTick ==
    /\ now < SoloMaxTime
    /\ now' = now + 1
    /\ UNCHANGED <<filt, store, local>>

SoloEnqueue(candidate_id) ==
    /\ Len(tweet_queue) < SoloMaxQueue
    /\ tweet_queue' = InsertQueueRow(tweet_queue, candidate_id)
    /\ UNCHANGED <<filt, now, tweets_publicados, logs, local>>

SoloSchedCheck(p) == SchedCheckWith(p, MAX_TWEETS_PER_DAY)

SoloNext ==
    \/ SoloTick
    \/ \E c \in Candidates : SoloEnqueue(c)
    \/ \E id \in SoloQueueIds : approve_tweet(id)
    \/ \E id \in SoloQueueIds : skip_tweet(id)
    \/ \E p \in SoloProcs : SchedFetch(p)
    \/ \E p \in SoloProcs : SchedScan(p)
    \/ \E p \in SoloProcs : SoloSchedCheck(p)
    \/ \E p \in SoloProcs : SchedWrite(p)
    \/ \E p \in SoloProcs : DispatchFetch(p)
    \/ \E p \in SoloProcs : \E ok \in BOOLEAN : DispatchPublish(p, ok)
    \/ \E p \in SoloProcs : DispatchInsert(p)

SoloSpec == Init /\ [][SoloNext]_vars

\* The one-process runs with the "stats" command.
StatsNext ==
    \/ SoloNext
    \/ \E p \in SoloProcs : GetStats(p)

StatsSpec == Init /\ [][StatsNext]_vars

\* ----------------------------------------------------- runs with fairness
\* The runs of one engine with the clock, the operator and the daemon, where
\* what the code repeats is repeated for ever: the daemon's loop
\* (cli.py 627-647, "while True: publish_all_pending(); time.sleep(interval)")
\* polls again after every pass, schedule_approved_tweets is called again
\* and again (cli.py 228-241, web/main.py 338-342), and time passes. The
\* clock stops at LiveMaxTime unless a scheduled entry still waits for its
\* instant; an entry is scheduled once, so neither table outgrows the queue.
LiveQueueIds == 1..LiveMaxQueue

LiveTick ==
    /\ \/ now < LiveMaxTime
       \/ \E j \in 1..Len(tweet_queue) :
             /\ tweet_queue[j].status = "scheduled"
             /\ tweet_queue[j].scheduled_at # NULL
             /\ tweet_queue[j].scheduled_at > now
    /\ now' = now + 1
    /\ UNCHANGED <<filt, store, local>>

LiveEnqueue(candidate_id) ==
    /\ Len(tweet_queue) < LiveMaxQueue
    /\ tweet_queue' = InsertQueueRow(tweet_queue, candidate_id)
    /\ UNCHANGED <<filt, now, tweets_publicados, logs, local>>

LivePublish(p, ok) == DispatchPublishWith(p, ok, LiveMaxQueue, LiveMaxQueue)

LiveSchedule ==
    \E p \in SoloProcs :
        SchedFetch(p) \/ SchedScan(p) \/ SoloSchedCheck(p) \/ SchedWrite(p)

LiveDispatch ==
    \E p \in SoloProcs :
        \/ DispatchFetch(p)
        \/ \E ok \in BOOLEAN : LivePublish(p, ok)
        \/ DispatchInsert(p)

LiveNext ==
    \/ LiveTick
    \/ \E c \in Candidates : LiveEnqueue(c)
    \/ \E id \in LiveQueueIds : approve_tweet(id)
    \/ \E id \in LiveQueueIds : skip_tweet(id)
    \/ \E p \in SoloProcs : SchedFetch(p)
    \/ \E p \in SoloProcs : SchedScan(p)
    \/ \E p \in SoloProcs : SoloSchedCheck(p)
    \/ \E p \in SoloProcs : SchedWrite(p)
    \/ \E p \in SoloProcs : DispatchFetch(p)
    \/ \E p \in SoloProcs : \E ok \in BOOLEAN : LivePublish(p, ok)
    \/ \E p \in SoloProcs : DispatchInsert(p)

LiveSpec ==
    /\ Init
    /\ [][LiveNext]_vars
    /\ WF_vars(LiveTick)
    /\ WF_vars(LiveSchedule)
    /\ WF_vars(LiveDispatch)

\* ------------------------------------------------------ two dispatchers
\* Two instances of the run command (cli.py 433-647: a daemon and a second
\* daemon or a one-shot run) poll the same store; the first process also
\* runs schedule_approved_tweets. The operator enqueues and approves drafted
\* entries and does nothing else, so that only the dispatchers move an entry
\* out of scheduled. A pass handles an entry at most once, hence at most two
\* platform calls per entry.
DualQueueIds == 1..DualMaxQueue

DualTick ==
    /\ now < DualMaxTime
    /\ now' = now + 1
    /\ UNCHANGED <<filt, store, local>>

DualEnqueue(candidate_id) ==
    /\ Len(tweet_queue) < DualMaxQueue
    /\ tweet_queue' = InsertQueueRow(tweet_queue, candidate_id)
    /\ UNCHANGED <<filt, now, tweets_publicados, logs, local>>

DualApprove(queue_id) ==
    /\ Exists(queue_id)
    /\ tweet_queue[queue_id].status = "drafted"
    /\ approve_tweet(queue_id)

DualPublish(p, ok) ==
    DispatchPublishWith(p, ok, 2 * DualMaxQueue, 2 * DualMaxQueue)

DualNext ==
    \/ DualTick
    \/ \E c \in Candidates : DualEnqueue(c)
    \/ \E id \in DualQueueIds : DualApprove(id)
    \/ \E p \in SoloProcs : SchedFetch(p)
    \/ \E p \in SoloProcs : SchedScan(p)
    \/ \E p \in SoloProcs : SoloSchedCheck(p)
    \/ \E p \in SoloProcs : SchedWrite(p)
    \/ \E p \in Procs : DispatchFetch(p)
    \/ \E p \in Procs : \E ok \in BOOLEAN : DualPublish(p, ok)
    \/ \E p \in Procs : DispatchInsert(p)

DualSpec == Init /\ [][DualNext]_vars

\* ------------------------------------------------------- slot-search runs
\* A queue built up by earlier batches: its first n slots from day 0 on are
\* held by scheduled entries, one of them (gap) has since been marked
\* failed, and one further entry is approved. "schedule" is then invoked
\* once, at any time of day 0.
HorizonSlots == HorizonDays * Len(daily_slots)

NthSlot(n) ==
    SlotAt((n - 1) \div Len(daily_slots), ((n - 1) % Len(daily_slots)) + 1)

HeldQueue(n, gap) ==
    [j \in 1..n |->
        [candidate_id |-> 1,
         status |-> IF j = gap THEN "failed" ELSE "scheduled",
         scheduled_at |-> NthSlot(j), created_at |-> j]]

SlotInit ==
    \E n \in 0..(HorizonSlots + ExtraHeld) : \E gap \in 0..n :
       \E t \in 0..SlotMaxNow :
        /\ now = t
        /\ tweet_queue = InsertQueueRow(HeldQueue(n, gap), 1)
        /\ tweets_publicados = <<>>
        /\ logs = 0
        /\ local = [p \in Procs |-> IdleLocal]
        /\ tweet_candidates = <<>>
        /\ text = <<>>
        /\ verdict = NoVerdict

\* The operator approves the entry that is still drafted.
SlotApprove ==
    \E id \in {Len(tweet_queue)} :
        tweet_queue[id].status = "drafted" /\ approve_tweet(id)

SlotNext ==
    \/ SlotApprove
    \/ \E p \in SoloProcs : SchedFetch(p)
    \/ \E p \in SoloProcs : SchedScan(p)
    \/ \E p \in SoloProcs : SoloSchedCheck(p)
    \/ \E p \in SoloProcs : SchedWrite(p)

SlotSpec == SlotInit /\ [][SlotNext]_vars

\* ------------------------------------------------------------ batch runs
\* One engine schedules a batch into a calendar that already holds entries:
\* the first n slots from day 0 on were assigned by earlier calls, the entry
\* at position gap was skipped since, and BatchSize entries are drafted. The
\* operator approves them, in order of creation.
BatchQueue(n, gap) ==
    [j \in 1..n |->
        [candidate_id |-> 1,
         status |-> IF j = gap THEN "skipped" ELSE "scheduled",
         scheduled_at |-> NthSlot(j), created_at |-> j]]

RECURSIVE WithDrafted(_, _)
WithDrafted(q, k) ==
    IF k = 0 THEN q ELSE WithDrafted(InsertQueueRow(q, 1), k - 1)

BatchInit ==
    \E n \in 0..BatchHeld : \E gap \in 0..n : \E t \in 0..BatchMaxNow :
        /\ now = t
        /\ tweet_queue = WithDrafted(BatchQueue(n, gap), BatchSize)
        /\ tweets_publicados = <<>>
        /\ logs = 0
        /\ local = [p \in Procs |-> IdleLocal]
        /\ tweet_candidates = <<>>
        /\ text = <<>>
        /\ verdict = NoVerdict

BatchApprove ==
    \E id \in 1..Len(tweet_queue) :
        /\ tweet_queue[id].status = "drafted"
        /\ \A j \in 1..(id - 1) : tweet_queue[j].status # "drafted"
        /\ approve_tweet(id)

BatchNext ==
    \/ BatchApprove
    \/ \E p \in SoloProcs : SchedFetch(p)
    \/ \E p \in SoloProcs : SchedScan(p)
    \/ \E p \in SoloProcs : SoloSchedCheck(p)
    \/ \E p \in SoloProcs : SchedWrite(p)

BatchSpec == BatchInit /\ [][BatchNext]_vars

\* ------------------------------------------------------------- reschedule
\* UPDATE tweet_queue SET scheduled_at = ? WHERE id = ? under idx_unique_slot
\* (cli.py 417-420, web/main.py 411-416); an id without a row matches nothing.
UpdateScheduledAt(q, id, at) ==
    IF id \notin 1..Len(q) THEN q
    ELSE LET newrow == [q[id] EXCEPT !.scheduled_at = at]
         IN  IF SlotConflict(q, id, newrow) THEN IntegrityError
             ELSE [q EXCEPT ![id] = newrow]

\* The instants an operator may ask for: any date and time, on a slot or not.
RescheduleInstants == 0..RescheduleMaxAt

\* reschedule command, cli.py 349-413: the entry is looked up (it must be
\* scheduled, else the command ends), the new instant is computed and the
\* operator is asked to confirm.
RescheduleRead(p, tweet_id, at) ==
    /\ local[p].pc = "idle"
    /\ local' = [local EXCEPT ![p] =
          IF Exists(tweet_id) /\ tweet_queue[tweet_id].status = "scheduled"
          THEN [IdleLocal EXCEPT !.pc = "reschedule", !.queue_id = tweet_id,
                                 !.next_slot = at]
          ELSE IdleLocal]
    /\ UNCHANGED <<filt, now, store>>

\* cli.py 417-422: the one UPDATE; a rejected one ends the command with the
\* IntegrityError and has written nothing.
RescheduleWrite(p) ==
    /\ local[p].pc = "reschedule"
    /\ LET written == UpdateScheduledAt(tweet_queue, local[p].queue_id,
                                        local[p].next_slot)
       IN  tweet_queue' = IF written = IntegrityError THEN tweet_queue
                          ELSE written
    /\ local' = [local EXCEPT ![p] = IdleLocal]
    /\ UNCHANGED <<filt, now, tweets_publicados, logs>>

\* reschedule_post, web/main.py 407-424: the UPDATE at once, whatever the
\* status; the IntegrityError becomes the 500 answer.
reschedule_post(queue_id, at) ==
    /\ LET written == UpdateScheduledAt(tweet_queue, queue_id, at)
       IN  tweet_queue' = IF written = IntegrityError THEN tweet_queue
                          ELSE written
    /\ UNCHANGED <<filt, now, tweets_publicados, logs, local>>

\* One engine and the operator's reschedules on a calendar that earlier calls
\* have filled.
RescheduleInit ==
    \E n \in 0..RescheduleHeld : \E t \in 0..BatchMaxNow :
        /\ now = t
        /\ tweet_queue = WithDrafted(BatchQueue(n, 0), 1)
        /\ tweets_publicados = <<>>
        /\ logs = 0
        /\ local = [p \in Procs |-> IdleLocal]
        /\ tweet_candidates = <<>>
        /\ text = <<>>
        /\ verdict = NoVerdict

RescheduleNext ==
    \/ BatchApprove
    \/ \E p \in SoloProcs : SchedFetch(p)
    \/ \E p \in SoloProcs : SchedScan(p)
    \/ \E p \in SoloProcs : SoloSchedCheck(p)
    \/ \E p \in SoloProcs : SchedWrite(p)
    \/ \E p \in SoloProcs : \E id \in 1..(RescheduleHeld + 1) :
          \E at \in RescheduleInstants : RescheduleRead(p, id, at)
    \/ \E p \in SoloProcs : RescheduleWrite(p)
    \/ \E id \in 1..(RescheduleHeld + 1) :
          \E at \in RescheduleInstants : reschedule_post(id, at)

RescheduleSpec == RescheduleInit /\ [][RescheduleNext]_vars

\* ------------------------------------------------------------------- Next
Next ==
    \/ Tick
    \/ \E c \in Candidates : add_to_queue(c)
    \/ \E id \in QueueIds : approve_tweet(id)
    \/ \E id \in QueueIds : skip_tweet(id)
    \/ \E id \in QueueIds : mark_as_failed(id)
    \/ \E p \in Procs : SchedFetch(p)
    \/ \E p \in Procs : SchedScan(p)
    \/ \E p \in Procs : SchedCheck(p)
    \/ \E p \in Procs : SchedWrite(p)
    \/ \E p \in Procs, id \in QueueIds : MarkPostedUpdate(p, id)
    \/ \E p \in Procs : MarkPostedInsert(p)
    \/ \E p \in Procs : Crash(p)

Spec == Init /\ [][Next]_vars

TypeOK ==
    /\ now \in Nat
    /\ \A j \in 1..Len(tweet_queue) :
          /\ tweet_queue[j].status \in Statuses
          /\ tweet_queue[j].candidate_id \in Candidates
          /\ tweet_queue[j].created_at = j
    /\ logs \in 0..MaxLogs
    /\ \A p \in Procs :
          local[p].pc \in {"idle", "scan", "check", "write", "insert",
                            "publish", "dinsert"}

\* ------------------------------------------------------------------- texts
\* A text is a sequence of characters, a character its Unicode code point
\* (len(text) counts code points).
IsSpace(c) == c \in {9, 10, 11, 12, 13, 32}

\* A letter that str.lower() changes: A-Z and the Latin-1 capitals.
IsUpper(c) ==
    \/ 65 <= c /\ c <= 90
    \/ 192 <= c /\ c <= 222 /\ c # 215

\* \w: digits, letters and the underscore (re.UNICODE)
IsWord(c) ==
    \/ 48 <= c /\ c <= 57
    \/ 65 <= c /\ c <= 90
    \/ 97 <= c /\ c <= 122
    \/ c = 95
    \/ 192 <= c /\ c <= 255 /\ c # 215 /\ c # 247
    \/ 19968 <= c /\ c <= 40959

\* text.lower()
lower(t) == [i \in 1..Len(t) |-> IF IsUpper(t[i]) THEN t[i] + 32 ELSE t[i]]

\* The literal lit stands in t at position i.
LitAt(t, i, lit) ==
    /\ i + Len(lit) - 1 <= Len(t)
    /\ \A k \in 1..Len(lit) : t[i + k - 1] = lit[k]

\* lit in t
Contains(t, lit) == \E i \in 1..(Len(t) + 1) : LitAt(t, i, lit)

\* The position after the longest run of \S, of \w, of \s that starts at i.
NonSpaceEnd(t, i) ==
    CHOOSE j \in i..(Len(t) + 1) :
        /\ (j = Len(t) + 1 \/ IsSpace(t[j]))
        /\ \A k \in i..(j - 1) : ~IsSpace(t[k])

WordEnd(t, i) ==
    CHOOSE j \in i..(Len(t) + 1) :
        /\ (j = Len(t) + 1 \/ ~IsWord(t[j]))
        /\ \A k \in i..(j - 1) : IsWord(t[k])

SpaceEnd(t, i) ==
    CHOOSE j \in i..(Len(t) + 1) :
        /\ (j = Len(t) + 1 \/ ~IsSpace(t[j]))
        /\ \A k \in i..(j - 1) : IsSpace(t[k])

\* The first of a set of positions, 0 when there is none: where a scan from
\* left to right finds its next match.
First(S) == IF S = {} THEN 0 ELSE CHOOSE x \in S : \A y \in S : x <= y

\* r'http\S+|www\.\S+' matched at position i: the position after the match,
\* or 0 when the pattern does not match there.
UrlEnd(t, i) ==
    IF /\ (LitAt(t, i, <<104, 116, 116, 112>>) \/ LitAt(t, i, <<119, 119, 119, 46>>))
       /\ i + 4 <= Len(t)
       /\ ~IsSpace(t[i + 4])
    THEN NonSpaceEnd(t, i + 4)
    ELSE 0

\* The next match of the URL pattern from position i on
NextUrl(t, i) == First({s \in i..Len(t) : UrlEnd(t, s) # 0})

\* re.sub(url_pattern, repl, text), scanning from position i
RECURSIVE SubUrls(_, _, _)
SubUrls(t, i, repl) ==
    LET s == NextUrl(t, i)
    IN  IF s = 0 THEN SubSeq(t, i, Len(t))
        ELSE SubSeq(t, i, s - 1) \o repl \o SubUrls(t, UrlEnd(t, s), repl)

\* re.findall(url_pattern, text), scanning from position i
RECURSIVE FindUrls(_, _)
FindUrls(t, i) ==
    LET s == NextUrl(t, i)
    IN  IF s = 0 THEN <<>>
        ELSE <<SubSeq(t, s, UrlEnd(t, s) - 1)>> \o FindUrls(t, UrlEnd(t, s))

\* The next match of r'[@#]\w+' from position i on
NextMention(t, i) ==
    First({s \in i..(Len(t) - 1) : t[s] \in {64, 35} /\ IsWord(t[s + 1])})

\* re.sub(r'[@#]\w+', '', text), scanning from position i
RECURSIVE SubMentions(_, _)
SubMentions(t, i) ==
    LET s == NextMention(t, i)
    IN  IF s = 0 THEN SubSeq(t, i, Len(t))
        ELSE SubSeq(t, i, s - 1) \o SubMentions(t, WordEnd(t, s + 1))

\* re.sub(r'[^\w\s]', '', text)
SubPunctuation(t) == SelectSeq(t, LAMBDA c : IsWord(c) \/ IsSpace(c))

\* re.sub(r'\s+', ' ', text), scanning from position i
RECURSIVE SubSpaces(_, _)
SubSpaces(t, i) ==
    LET s == First({k \in i..Len(t) : IsSpace(t[k])})
    IN  IF s = 0 THEN SubSeq(t, i, Len(t))
        ELSE SubSeq(t, i, s - 1) \o <<32>> \o SubSpaces(t, SpaceEnd(t, s))

\* text.strip()
strip(t) ==
    LET lead  == SpaceEnd(t, 1) - 1
        trail == CHOOSE n \in 0..Len(t) :
                     /\ (n = Len(t) \/ ~IsSpace(t[Len(t) - n]))
                     /\ \A k \in 1..n : IsSpace(t[Len(t) - k + 1])
    IN  SubSeq(t, lead + 1, Len(t) - trail)

\* utils.normalize_text
normalize_text(t) ==
    strip(SubSpaces(SubPunctuation(SubMentions(SubUrls(lower(t), 1, <<>>), 1)), 1))

\* hash_text that hashes the text as it is written.
hash_text_Raw(t) == [sha256 |-> t]

\* utils.hash_text: SHA-256 of the normalized text, taken as collision-free
hash_text(t) == [sha256 |-> normalize_text(t)]

\* 'X' * 23
UrlPlaceholder == [k \in 1..23 |-> 88]

\* count_chars that counts the literal characters of the text, URLs included.
count_chars_Literal(t) == Len(t)

\* utils.count_chars: the length after every URL is replaced by 23 characters
count_chars(t) == Len(SubUrls(t, 1, UrlPlaceholder))

\* --------------------------------------------------------------- filters
MaxLength == 280              \* if actual_length > 280
MinLength == 10               \* if len(text) < 10
DuplicateThresholdPct == 85   \* threshold: float = 0.85, in percent
RecentLimit == 100            \* ORDER BY created_at DESC LIMIT 100

\* voice.palabras_prohibidas as configured: the one word "Spam"
palabras_prohibidas == <<<<83, 112, 97, 109>>>>

Chars(t) == {t[i] : i \in 1..Len(t)}

Max(a, b) == IF a >= b THEN a ELSE b

\* One row of the longest-common-subsequence table of a and b, the row of
\* character ch of a, from the row above: at column j the larger of above[j]
\* and, for the last k <= j with b[k] = ch, above[k - 1] + 1.
LcsRow(above, ch, b) ==
    [j \in 1..Len(b) |->
        LET k == CHOOSE x \in 0..j :
                     /\ x = 0 \/ b[x] = ch
                     /\ \A y \in (x + 1)..j : b[y] # ch
        IN  IF k = 0 THEN above[j]
            ELSE Max(above[j], (IF k = 1 THEN 0 ELSE above[k - 1]) + 1)] \o <<>>

\* The last row of the characters a[lo..hi], from the row above a[lo]: the
\* rows of the first half, then those of the second half from its result m.
RECURSIVE LcsRows(_, _, _, _, _)
LcsRows(a, b, lo, hi, above) ==
    IF lo > hi THEN above
    ELSE IF lo = hi THEN LcsRow(above, a[lo], b)
    ELSE LET mid == (lo + hi) \div 2
         IN  CHOOSE row \in {LcsRows(a, b, mid + 1, hi, m) :
                                m \in {LcsRows(a, b, lo, mid, above)}} : TRUE

\* Length of the longest common subsequence of a and b.
LCS(a, b) ==
    IF Chars(a) \cap Chars(b) = {} THEN 0
    ELSE LcsRows(a, b, 1, Len(a), [j \in 1..Len(b) |-> 0] \o <<>>)[Len(b)]

\* The comparison with the threshold excluded.
SimilarityAtLeast_Strict(s1, s2, pct) ==
    200 * LCS(s1, s2) > pct * (Len(s1) + Len(s2))

\* fuzz.ratio(s1, s2) / 100.0 >= pct / 100, where fuzz.ratio is the
\* normalized Indel similarity 100 * 2 * LCS / (len(s1) + len(s2)), and 100
\* for two empty strings.
SimilarityAtLeast(s1, s2, pct) ==
    200 * LCS(s1, s2) >= pct * (Len(s1) + Len(s2))

\* The sets of rows ORDER BY created_at DESC LIMIT 100 may return. The rows
\* are inserted in the order of their created_at, which has a resolution of
\* one second: the query returns the rows created after the second of the
\* 100th most recent row and, of the rows created in that very second, as
\* many as fill the limit, whichever they are.
Windows(cands) ==
    LET n == Len(cands)
    IN  IF n <= RecentLimit THEN {1..n}
        ELSE LET cut   == cands[n - RecentLimit + 1].created_at
                 later == {k \in 1..n : cands[k].created_at > cut}
                 same  == {k \in 1..n : cands[k].created_at = cut}
             IN  {later \cup X : X \in {Y \in SUBSET same :
                     Cardinality(Y) = RecentLimit - Cardinality(later)}}

\* TweetFilter.is_duplicate: the exact hash among all candidates, then the
\* similarity with each of the rows W the query for the recent ones returned.
is_duplicate(cands, W, t) ==
    \/ \E k \in 1..Len(cands) : cands[k].content_hash = hash_text(t)
    \/ \E k \in W :
          SimilarityAtLeast(normalize_text(t), normalize_text(cands[k].content),
                            DuplicateThresholdPct)

\* TweetFilter.contains_forbidden_words
contains_forbidden_words(t) ==
    \E w \in 1..Len(palabras_prohibidas) :
        Contains(lower(t), lower(palabras_prohibidas[w]))

\* A pattern of the two lists below: parts that follow each other, each part
\* one of a set of literals; between two parts ".*" (dotstar) or "\s+"
\* (spaces); wb: every part stands between two \b.
WordAt(t, i) == i \in 1..Len(t) /\ IsWord(t[i])

\* \b at position i: between t[i-1] and t[i]
Boundary(t, i) == WordAt(t, i - 1) # WordAt(t, i)

\* The positions after a match of one literal of part at position i.
PartEnds(t, i, part, wb) ==
    {i + Len(lit) : lit \in {x \in part :
        /\ LitAt(t, i, x)
        /\ wb => (Boundary(t, i) /\ Boundary(t, i + Len(x)))}}

\* The positions at which the next part may start after position e.
NextStarts(t, e, sep) ==
    IF sep = "dotstar"
    THEN {j \in e..(Len(t) + 1) : \A k \in e..(j - 1) : t[k] # 10}
    ELSE {j \in (e + 1)..(Len(t) + 1) : \A k \in e..(j - 1) : IsSpace(t[k])}

RECURSIVE MatchFrom(_, _, _, _)
MatchFrom(t, i, pat, k) ==
    \E e \in PartEnds(t, i, pat.parts[k], pat.wb) :
        \/ k = Len(pat.parts)
        \/ \E j \in NextStarts(t, e, pat.sep) : MatchFrom(t, j, pat, k + 1)

\* re.search(pattern, text): a match starts at a position that holds the
\* first character of a literal of the first part.
Search(pat, t) ==
    LET firsts == {lit[1] : lit \in pat.parts[1]}
    IN  \E i \in {k \in 1..Len(t) : t[k] \in firsts} : MatchFrom(t, i, pat, 1)

aggressive_patterns == <<
    \* \bestupid[oa]s?\b  (u with acute accent)
    [parts |-> <<{<<101, 115, 116, 250, 112, 105, 100, 111>>,
           <<101, 115, 116, 250, 112, 105, 100, 111, 115>>,
           <<101, 115, 116, 250, 112, 105, 100, 97>>,
           <<101, 115, 116, 250, 112, 105, 100, 97, 115>>}>>,
     sep |-> "none", wb |-> TRUE],
    \* \bidiot[oa]s?\b
    [parts |-> <<{<<105, 100, 105, 111, 116, 111>>,
           <<105, 100, 105, 111, 116, 111, 115>>,
           <<105, 100, 105, 111, 116, 97>>,
           <<105, 100, 105, 111, 116, 97, 115>>}>>,
     sep |-> "none", wb |-> TRUE],
    \* \bimbecil(es)?\b  (e with acute accent)
    [parts |-> <<{<<105, 109, 98, 233, 99, 105, 108>>,
           <<105, 109, 98, 233, 99, 105, 108, 101, 115>>}>>,
     sep |-> "none", wb |-> TRUE],
    \* \bpelotud[oa]s?\b
    [parts |-> <<{<<112, 101, 108, 111, 116, 117, 100, 111>>,
           <<112, 101, 108, 111, 116, 117, 100, 111, 115>>,
           <<112, 101, 108, 111, 116, 117, 100, 97>>,
           <<112, 101, 108, 111, 116, 117, 100, 97, 115>>}>>,
     sep |-> "none", wb |-> TRUE],
    \* \bboludos?\b
    [parts |-> <<{<<98, 111, 108, 117, 100, 111>>,
           <<98, 111, 108, 117, 100, 111, 115>>}>>,
     sep |-> "none", wb |-> TRUE],
    \* \bpendej[oa]s?\b
    [parts |-> <<{<<112, 101, 110, 100, 101, 106, 111>>,
           <<112, 101, 110, 100, 101, 106, 111, 115>>,
           <<112, 101, 110, 100, 101, 106, 97>>,
           <<112, 101, 110, 100, 101, 106, 97, 115>>}>>,
     sep |-> "none", wb |-> TRUE],
    \* \bataques?\b.*\bpersonal(es)?\b
    [parts |-> <<{<<97, 116, 97, 113, 117, 101>>,
           <<97, 116, 97, 113, 117, 101, 115>>},
          {<<112, 101, 114, 115, 111, 110, 97, 108>>,
           <<112, 101, 114, 115, 111, 110, 97, 108, 101, 115>>}>>,
     sep |-> "dotstar", wb |-> TRUE],
    \* \bvos\b.*\b(sos|eres)\b.*\b(un|una)\b
    [parts |-> <<{<<118, 111, 115>>},
          {<<115, 111, 115>>,
           <<101, 114, 101, 115>>},
          {<<117, 110>>,
           <<117, 110, 97>>}>>,
     sep |-> "dotstar", wb |-> TRUE]
>>

misleading_patterns == <<
    \* click\s+aqu[ii]  (i with or without accent)
    [parts |-> <<{<<99, 108, 105, 99, 107>>},
          {<<97, 113, 117, 237>>,
           <<97, 113, 117, 105>>}>>,
     sep |-> "spaces", wb |-> FALSE],
    \* haz\s+click
    [parts |-> <<{<<104, 97, 122>>},
          {<<99, 108, 105, 99, 107>>}>>,
     sep |-> "spaces", wb |-> FALSE],
    \* sigue\s+este\s+enlace
    [parts |-> <<{<<115, 105, 103, 117, 101>>},
          {<<101, 115, 116, 101>>},
          {<<101, 110, 108, 97, 99, 101>>}>>,
     sep |-> "spaces", wb |-> FALSE],
    \* garant[ii]a  (i with or without accent)
    [parts |-> <<{<<103, 97, 114, 97, 110, 116, 237, 97>>,
           <<103, 97, 114, 97, 110, 116, 105, 97>>}>>,
     sep |-> "none", wb |-> FALSE],
    \* 100%\s+(seguro|efectivo|gratis)
    [parts |-> <<{<<49, 48, 48, 37>>},
          {<<115, 101, 103, 117, 114, 111>>,
           <<101, 102, 101, 99, 116, 105, 118, 111>>,
           <<103, 114, 97, 116, 105, 115>>}>>,
     sep |-> "spaces", wb |-> FALSE],
    \* (gana|gan[aa])\s+(dinero|plata)  (a with or without accent)
    [parts |-> <<{<<103, 97, 110, 97>>,
           <<103, 97, 110, 225>>},
          {<<100, 105, 110, 101, 114, 111>>,
           <<112, 108, 97, 116, 97>>}>>,
     sep |-> "spaces", wb |-> FALSE]
>>

\* TweetFilter.is_aggressive
is_aggressive(t) ==
    \E n \in 1..Len(aggressive_patterns) : Search(aggressive_patterns[n], lower(t))

\* TweetFilter.is_misleading
is_misleading(t) ==
    \E n \in 1..Len(misleading_patterns) : Search(misleading_patterns[n], lower(t))

Rejected(reason) == [ok |-> FALSE, reason |-> reason]
Accepted == [ok |-> TRUE, reason |-> "None"]

\* The upper bound taken on the number of characters written.
TooLong_Raw(t) == Len(t) > MaxLength

\* actual_length = count_chars(text); if actual_length > 280
TooLong(t) == count_chars(t) > MaxLength

\* The lower bound taken on the length with each URL counted as 23.
TooShort_Effective(t) == count_chars(t) < MinLength

\* if len(text) < 10
TooShort(t) == Len(t) < MinLength

\* validate with the two length checks ahead of the others.
validate_LengthFirst(cands, W, t) ==
    IF TooLong(t) THEN Rejected("excede longitud maxima")
    ELSE IF TooShort(t) THEN Rejected("demasiado corto")
    ELSE IF is_duplicate(cands, W, t) THEN Rejected("duplicado")
    ELSE IF contains_forbidden_words(t) THEN Rejected("palabras prohibidas")
    ELSE IF is_aggressive(t) THEN Rejected("lenguaje agresivo")
    ELSE IF is_misleading(t) THEN Rejected("contenido enganoso")
    ELSE Accepted

\* TweetFilter.validate: the first check that fails gives the reason.
validate(cands, W, t) ==
    IF is_duplicate(cands, W, t) THEN Rejected("duplicado")
    ELSE IF contains_forbidden_words(t) THEN Rejected("palabras prohibidas")
    ELSE IF is_aggressive(t) THEN Rejected("lenguaje agresivo")
    ELSE IF is_misleading(t) THEN Rejected("contenido enganoso")
    ELSE IF TooLong(t) THEN Rejected("excede longitud maxima")
    ELSE IF TooShort(t) THEN Rejected("demasiado corto")
    ELSE Accepted

\* A validate that records the text it was given among the candidates.
ValidateText_Recording(t) ==
    /\ text = <<>>
    /\ text' = t
    /\ \E W \in Windows(tweet_candidates) :
          verdict' = validate(tweet_candidates, W, t)
    /\ tweet_candidates' = Append(tweet_candidates,
            [content |-> t, content_hash |-> hash_text(t), created_at |-> 1])
    /\ UNCHANGED <<now, store, local>>

\* --------------------------------------------------------- generation side
\* generator.py, lines 146-161: the generated text goes through validate.
\* One text is followed up to its verdict and, when accepted, to its row:
\* the text generated after a rejected one meets the same stored rows as
\* one generated in its place.
ValidateText(t) ==
    /\ text = <<>>
    /\ text' = t
    /\ \E W \in Windows(tweet_candidates) :
          verdict' = validate(tweet_candidates, W, t)
    /\ UNCHANGED <<now, store, local, tweet_candidates>>

\* DEFAULT CURRENT_TIMESTAMP of the next row: the second of the last insert
\* or a later one.
NextStamps(cands) ==
    IF cands = <<>> THEN {1}
    ELSE {cands[Len(cands)].created_at, cands[Len(cands)].created_at + 1}

\* generator.py, lines 146-153: the row of a generated text
CandidateRow(t, at) ==
    [content |-> t, content_hash |-> hash_text(t), created_at |-> at]

\* An insert into a table without the UNIQUE constraint on content_hash.
InsertCandidate_NoUnique(cands, row) == Append(cands, row)

\* INSERT INTO tweet_candidates under "content_hash TEXT NOT NULL UNIQUE":
\* the rows after the insert, or IntegrityError.
InsertCandidate(cands, row) ==
    IF \E j \in 1..Len(cands) : cands[j].content_hash = row.content_hash
    THEN IntegrityError
    ELSE Append(cands, row)

\* generate_batch and save_tweet: a text that passed validate is inserted
\* with content_hash = hash_text(content).
save_tweet(at) ==
    /\ verdict.ok
    /\ at \in NextStamps(tweet_candidates)
    /\ LET written == InsertCandidate(tweet_candidates, CandidateRow(text, at))
       IN  tweet_candidates' =
             IF written = IntegrityError THEN tweet_candidates ELSE written
    /\ text' = <<>>
    /\ verdict' = NoVerdict
    /\ UNCHANGED <<now, store, local>>

\* ------------------------------------------------------------ input texts
Pad(c, n) == [k \in 1..n |-> c]

\* "abcdefghijklmnopqrst"
Base ==
    <<97, 98, 99, 100, 101, 102, 103, 104, 105, 106, 107, 108, 109, 110,
    111, 112, 113, 114, 115, 116>>
\* "ABCDEFGHIJ-klmnopqrst! @x": the same normalized form as Base
BaseVariant ==
    <<65, 66, 67, 68, 69, 70, 71, 72, 73, 74, 45, 107, 108, 109, 110, 111,
    112, 113, 114, 115, 116, 33, 32, 64, 120>>
\* "abcXefgYijklmZopqrst": 3 of 20 characters replaced, similarity 0.85
Near85 ==
    <<97, 98, 99, 88, 101, 102, 103, 89, 105, 106, 107, 108, 109, 90, 111,
    112, 113, 114, 115, 116>>
\* "abcXefgYijklmZopqWst": 4 of 20 characters replaced, similarity 0.80
Near80 ==
    <<97, 98, 99, 88, 101, 102, 103, 89, 105, 106, 107, 108, 109, 90, 111,
    112, 113, 87, 115, 116>>
\* "Hola mundo": 10 characters
HolaMundo ==
    <<72, 111, 108, 97, 32, 109, 117, 110, 100, 111>>
\* "Hi"
Hi ==
    <<72, 105>>
\* "Hola mund": 9 characters
HolaMund ==
    <<72, 111, 108, 97, 32, 109, 117, 110, 100>>
\* "http://ab": 9 characters, one URL
NineUrl ==
    <<104, 116, 116, 112, 58, 47, 47, 97, 98>>
\* "pensar es cuestionar todo"
Pensar ==
    <<112, 101, 110, 115, 97, 114, 32, 101, 115, 32, 99, 117, 101, 115, 116,
    105, 111, 110, 97, 114, 32, 116, 111, 100, 111>>
\* "Spam pensar es cuestionar todo"
SpamPensar ==
    <<83, 112, 97, 109, 32, 112, 101, 110, 115, 97, 114, 32, 101, 115, 32,
    99, 117, 101, 115, 116, 105, 111, 110, 97, 114, 32, 116, 111, 100, 111>>
\* "Spam idiota"
SpamIdiota ==
    <<83, 112, 97, 109, 32, 105, 100, 105, 111, 116, 97>>
\* "idiota garantia"
IdiotaGarantia ==
    <<105, 100, 105, 111, 116, 97, 32, 103, 97, 114, 97, 110, 116, 105, 97>>
\* "garantia"
Garantia ==
    <<103, 97, 114, 97, 110, 116, 105, 97>>
\* "spam"
Spam ==
    <<115, 112, 97, 109>>
\* a URL of 60 characters
Url60 ==
    <<104, 116, 116, 112, 58, 47, 47, 101, 101, 101, 101, 101, 101, 101,
    101, 101, 101, 101, 101, 101, 101, 101, 101, 101, 101, 101, 101, 101,
    101, 101, 101, 101, 101, 101, 101, 101, 101, 101, 101, 101, 101, 101,
    101, 101, 101, 101, 101, 101, 101, 101, 101, 101, 101, 101, 101, 101,
    101, 101, 101, 101>>
\* " httpx": a URL of 5 characters after a space
Httpx ==
    <<32, 104, 116, 116, 112, 120>>
\* "ver http y www. y http://a": one URL, of 8 characters
LooseUrls ==
    <<118, 101, 114, 32, 104, 116, 116, 112, 32, 121, 32, 119, 119, 119, 46,
    32, 121, 32, 104, 116, 116, 112, 58, 47, 47, 97>>
\* "www.a http://bbb... ok": URLs of 5 and 43 characters
TwoUrls ==
    <<119, 119, 119, 46, 97, 32, 104, 116, 116, 112, 58, 47, 47, 98, 98, 98,
    98, 98, 98, 98, 98, 98, 98, 98, 98, 98, 98, 98, 98, 98, 98, 98, 98, 98,
    98, 98, 98, 98, 98, 98, 98, 98, 98, 98, 98, 98, 98, 98, 98, 32, 111,
    107>>

\* The n-th of a series of generated texts that have no character in common
\* with each other or with the texts above: 10 times one CJK letter.
Filler(n) == Pad(19968 + n, 10)

DupTexts == {Base, BaseVariant, Near85, Near80}

\* "garantia " and 280 letters
GarantiaLong == Garantia \o <<32>> \o Pad(120, 280)
\* 281 letters, 280 letters
Long281 == Pad(106, 281)
Long280 == Pad(113, 280)
\* letters, a space and the URL of 60 characters: effective length 280, 281
Url280 == Pad(122, 256) \o <<32>> \o Url60
Url281 == Pad(102, 257) \o <<32>> \o Url60
\* letters and the URL of 5 characters: effective length 280, 281
ShortUrl280 == Pad(121, 256) \o Httpx
ShortUrl281 == Pad(118, 257) \o Httpx

RuleTexts ==
    {HolaMundo, Hi, HolaMund, NineUrl, Pensar, SpamPensar, SpamIdiota,
     IdiotaGarantia, Garantia, Spam, TwoUrls, LooseUrls, GarantiaLong, Long281, Long280,
     Url280, Url281, ShortUrl280, ShortUrl281}

\* ----------------------------------------------- duplicate-detection runs
\* One of DupTexts may be stored first; then up to RecentLimit further
\* texts are generated, validated and stored.
DupValidate(t) == ValidateText(t)

FillerValidate ==
    /\ Len(tweet_candidates) < RecentLimit + DupHead
    /\ ValidateText(Filler(Len(tweet_candidates)))

\* Only the first MaxTied rows may be created within one second.
Tied(at) ==
    /\ tweet_candidates # <<>>
    /\ at = tweet_candidates[Len(tweet_candidates)].created_at

DupSave ==
    \E at \in NextStamps(tweet_candidates) :
        /\ Len(tweet_candidates) < RecentLimit + DupHead
        /\ text \in DupTexts => Len(tweet_candidates) < DupHead
        /\ Tied(at) => Len(tweet_candidates) < MaxTied
        /\ save_tweet(at)

DupNext ==
    \/ \E t \in DupTexts : DupValidate(t)
    \/ FillerValidate
    \/ DupSave

DupSpec == Init /\ [][DupNext]_vars

\* ----------------------------------------------------------- validate runs
RuleValidate(t) == ValidateText(t)

RuleSave ==
    \E at \in NextStamps(tweet_candidates) :
        /\ Len(tweet_candidates) < MaxRuleStored
        /\ Tied(at) => Len(tweet_candidates) < MaxTied
        /\ save_tweet(at)

RuleNext ==
    \/ \E t \in RuleTexts : RuleValidate(t)
    \/ RuleSave

RuleSpec == Init /\ [][RuleNext]_vars

\* ------------------------------------------------- two generation processes
\* Two "generate" commands run against one database. Each takes a text
\* through validate (generator.py:155, 199) and, when it is accepted, hands
\* the row to save_tweet (generator.py:329-331, called at 360-364); the
\* other process may run between the two statements.
GenTexts == {Base, BaseVariant, Near85, Near80, HolaMundo, Pensar}

\* generate: validate(content); a rejected text is dropped (return None).
GenValidate(p, t) ==
    /\ local[p].pc = "idle"
    /\ \E W \in Windows(tweet_candidates) :
          local' = [local EXCEPT ![p] =
             IF validate(tweet_candidates, W, t).ok
             THEN [IdleLocal EXCEPT !.pc = "save", !.content = t]
             ELSE IdleLocal]
    /\ UNCHANGED <<filt, now, store>>

\* save_tweet of the accepted text: the insert; an IntegrityError leaves
\* the command (generate_batch has no handler) and stores nothing.
GenSave(p, at) ==
    /\ local[p].pc = "save"
    /\ at \in NextStamps(tweet_candidates)
    /\ LET written == InsertCandidate(tweet_candidates,
                                      CandidateRow(local[p].content, at))
       IN  tweet_candidates' =
             IF written = IntegrityError THEN tweet_candidates ELSE written
    /\ local' = [local EXCEPT ![p] = IdleLocal]
    /\ UNCHANGED <<text, verdict, now, store>>

GenNext ==
    \/ \E p \in Procs : \E t \in GenTexts : GenValidate(p, t)
    \/ \E p \in Procs : \E at \in NextStamps(tweet_candidates) :
          /\ Len(tweet_candidates) < MaxGenStored
          /\ Tied(at) => Len(tweet_candidates) < MaxTied
          /\ GenSave(p, at)

GenSpec == Init /\ [][GenNext]_vars

\* ----------------------------------------------------------------- claims
Indexed == {j \in 1..Len(tweet_queue) : InSlotIndex(tweet_queue[j])}

\* C1: slot exclusivity -- in every reachable state, under every interleaving
\* of the processes' statements, no two queue entries whose status is
\* scheduled or posted hold the same scheduled_at value.
C1_SlotExclusivity ==
    \A a \in Indexed : \A b \in Indexed :
        (a # b /\ tweet_queue[a].scheduled_at # NULL)
            => tweet_queue[a].scheduled_at # tweet_queue[b].scheduled_at

\* C1 witness: a write was rejected by the index while two entries are
\* scheduled or posted at different slots.
C1_Witness ==
    /\ \E a \in Indexed : \E b \in Indexed :
          /\ a # b
          /\ tweet_queue[a].scheduled_at # NULL
          /\ tweet_queue[b].scheduled_at # NULL
    /\ \E p \in Procs :
          /\ local[p].pc = "write"
          /\ PendingWrite(p) = IntegrityError

\* C2: daily cap -- after any sequence of engine operations no calendar day
\* holds more than max_tweets_per_day entries with status scheduled or posted.
C2_DailyCap ==
    \A j \in 1..Len(tweet_queue) :
        tweet_queue[j].scheduled_at # NULL
            => CountOnDay(tweet_queue, DateOf(tweet_queue[j].scheduled_at))
                   <= max_tweets_per_day

\* tweets_publicados rows of a candidate
RecordsOf(pub, c) == Cardinality({k \in 1..Len(pub) : pub[k] = c})

\* C3: a mark_as_posted call that completes leaves the entry it posted with
\* exactly one PublishedRecord: never zero, never more than one.
C3_ExactlyOneRecord ==
    [][\A p \in Procs :
          (MarkPostedInsert(p) /\ Exists(local[p].queue_id))
              => RecordsOf(tweets_publicados',
                           tweet_queue[local[p].queue_id].candidate_id) = 1]_vars

\* C4: mark_as_posted is atomic -- in no reachable state is an entry posted
\* without a PublishedRecord of its candidate, or a PublishedRecord present
\* without a posted entry of its candidate.
C4_PostedAtomic ==
    /\ \A j \in 1..Len(tweet_queue) :
          tweet_queue[j].status = "posted"
              => RecordsOf(tweets_publicados, tweet_queue[j].candidate_id) >= 1
    /\ \A k \in 1..Len(tweets_publicados) :
          \E j \in 1..Len(tweet_queue) :
              /\ tweet_queue[j].candidate_id = tweets_publicados[k]
              /\ tweet_queue[j].status = "posted"

\* A scheduleApproved call whose work list is the single entry e stands at
\* its write after another call has already scheduled e.
LostRace(q) ==
    /\ local[q].pc = "write"
    /\ Len(local[q].approved) = 1
    /\ tweet_queue[local[q].approved[1]].status = "scheduled"
    /\ tweet_queue[local[q].approved[1]].scheduled_at # NULL

\* C5: of two processes running scheduleApproved on the same single approved
\* entry and the same free slot exactly one reports one entry scheduled; the
\* other, writing after it, observes zero entries scheduled or a constraint
\* violation, and the entry stays scheduled at the winner's slot.
C5_OneWinner ==
    \A q \in Procs :
        LostRace(q) =>
            \/ SchedWriteOutcome(q).raised
            \/ /\ SchedWriteOutcome(q).count = 0
               /\ PendingWrite(q)[local[q].approved[1]].scheduled_at
                     = tweet_queue[local[q].approved[1]].scheduled_at

\* C6: a write of scheduled_at rejected by the slot-uniqueness constraint is
\* caught: the call goes on and retries the same entry at a later slot.
C6_ContentionRecovered ==
    [][\A p \in Procs :
          (/\ local[p].pc = "write"
           /\ PendingWrite(p) = IntegrityError
           /\ SchedWrite(p))
              => /\ local'[p].pc \in {"check", "write"}
                 /\ local'[p].i = local[p].i
                 /\ local'[p].next_slot > local[p].next_slot]_vars

Terminal == {"posted", "failed", "skipped"}

\* C7: posted, failed and skipped are terminal -- no step changes the status
\* of an entry whose status is posted, failed or skipped.
C7_TerminalStatuses ==
    [][\A j \in 1..Len(tweet_queue) :
          tweet_queue[j].status \in Terminal
              => tweet_queue'[j].status = tweet_queue[j].status]_vars

Edges ==
    {<<"drafted", "approved">>, <<"approved", "scheduled">>,
     <<"scheduled", "posted">>, <<"scheduled", "failed">>,
     <<"drafted", "skipped">>, <<"approved", "skipped">>}

\* C8: every status change of a queue entry follows an edge of the state
\* machine (drafted->approved, approved->scheduled, scheduled->posted,
\* scheduled->failed, drafted->skipped, approved->skipped).
C8_StateMachineEdges ==
    [][\A j \in 1..Len(tweet_queue) :
          tweet_queue'[j].status # tweet_queue[j].status
              => <<tweet_queue[j].status, tweet_queue'[j].status>> \in Edges]_vars

\* C9: approve, skip, markPosted and markFailed called with an id that has no
\* queue entry return false and leave queue, PublishedRecords and log unchanged.
C9_MissingIdIsNoOp ==
    [][\A id \in QueueIds :
          ~Exists(id) =>
             /\ approve_tweet(id)
                   => (~approve_tweet_returns(id) /\ UNCHANGED store)
             /\ skip_tweet(id)
                   => (~skip_tweet_returns(id) /\ UNCHANGED store)
             /\ mark_as_failed(id)
                   => (~mark_as_failed_returns(id) /\ UNCHANGED store)
             /\ \A p \in Procs :
                   /\ MarkPostedUpdate(p, id) => UNCHANGED store
                   /\ (local[p].queue_id = id /\ MarkPostedInsert(p))
                         => (~mark_as_posted_returns(p) /\ UNCHANGED store)]_vars

\* C10: FIFO assignment -- within one scheduleApproved call the entries are
\* taken oldest-created first, and each entry the call schedules gets a slot
\* strictly later than the slots the call gave to the entries before it.
C10_FifoAssignment ==
    \A p \in Procs :
        (local[p].pc = "write" /\ PendingWrite(p) # IntegrityError)
            => \A k \in 1..(local[p].i - 1) :
                  /\ tweet_queue[local[p].approved[k]].created_at
                        < tweet_queue[local[p].approved[local[p].i]].created_at
                  /\ local[p].assigned[k] < local[p].next_slot

\* C10 witness: a call that has scheduled its first entry is about to
\* schedule its second.
C10_Witness ==
    \E p \in Procs :
        /\ local[p].pc = "write"
        /\ local[p].i = 2
        /\ Len(local[p].assigned) = 1
        /\ PendingWrite(p) # IntegrityError

\* The clock times of the configured daily slots.
SlotTimes == {daily_slots[k] : k \in 1..Len(daily_slots)}

\* C12: every scheduled_at value that schedule_approved_tweets writes is the
\* clock time of a configured daily slot and is strictly later than the time
\* at which the call read the clock.
C12_FutureSlotsOnly ==
    \A p \in Procs :
        local[p].pc = "write"
            => /\ local[p].next_slot % TicksPerDay \in SlotTimes
               /\ local[p].next_slot > local[p].current_time

\* C12 witness: the call read the clock exactly on the morning slot and is
\* about to write the evening slot of the same day.
C12_Witness ==
    \E p \in Procs :
        /\ local[p].pc = "write"
        /\ local[p].current_time = SlotAt(0, 1)
        /\ local[p].next_slot = SlotAt(0, 2)
        /\ PendingWrite(p) # IntegrityError

\* A one-process schedule_approved_tweets call over a queue of exactly three
\* entries, all three approved when the call read them, stands at the write
\* of the third with the first two scheduled where it put them.
ThreeApproved(p) ==
    /\ local[p].pc = "write"
    /\ Len(tweet_queue) = 3
    /\ local[p].approved = <<1, 2, 3>>
    /\ local[p].i = 3
    /\ \A k \in 1..2 :
          /\ tweet_queue[k].status = "scheduled"
          /\ tweet_queue[k].scheduled_at = local[p].assigned[k]

\* The clock reading dt is at or after the morning slot and before the
\* evening slot of its day.
BetweenSlots(dt) ==
    /\ dt % TicksPerDay >= daily_slots[1]
    /\ dt % TicksPerDay < daily_slots[2]

\* C11 as stated: with 2 slots per day and a cap of 2, three approved entries
\* of an otherwise empty queue are scheduled by one call in creation order,
\* 2 on the first available day and 1 on the next day, whatever the time of
\* day at which the call runs.
C11_TwoThenOne ==
    \A p \in SoloProcs :
        ThreeApproved(p) =>
            /\ PendingWrite(p) # IntegrityError
            /\ local[p].assigned[1] < local[p].assigned[2]
            /\ local[p].assigned[2] < local[p].next_slot
            /\ DateOf(local[p].assigned[2]) = DateOf(local[p].assigned[1])
            /\ DateOf(local[p].next_slot) = DateOf(local[p].assigned[1]) + 1

\* C11 amended: the three entries are scheduled in creation order at three
\* successive slots after the call's clock reading -- 2 on the first
\* available day and 1 on the next when the reading is before the morning
\* slot or at or after the evening slot; 1 on the current day and 2 on the
\* next day when the reading is at or after the morning slot and before the
\* evening slot.
C11_ByTimeOfDay ==
    \A p \in SoloProcs :
        ThreeApproved(p) =>
            LET a1 == local[p].assigned[1]
                a2 == local[p].assigned[2]
                a3 == local[p].next_slot
                t == local[p].current_time
            IN  /\ PendingWrite(p) # IntegrityError
                /\ t < a1 /\ a1 < a2 /\ a2 < a3
                /\ {a1 % TicksPerDay, a2 % TicksPerDay, a3 % TicksPerDay}
                      \subseteq SlotTimes
                /\ IF BetweenSlots(t)
                   THEN /\ DateOf(a1) = DateOf(t)
                        /\ DateOf(a2) = DateOf(t) + 1
                        /\ DateOf(a3) = DateOf(t) + 1
                   ELSE /\ DateOf(a1) = (IF t % TicksPerDay < daily_slots[1]
                                         THEN DateOf(t) ELSE DateOf(t) + 1)
                        /\ DateOf(a2) = DateOf(a1)
                        /\ DateOf(a3) = DateOf(a1) + 1

\* C11 witness: such a call that read the clock between the two slots.
C11_Witness ==
    \E p \in SoloProcs :
        /\ ThreeApproved(p)
        /\ BetweenSlots(local[p].current_time)
        /\ local[p].current_time % TicksPerDay > daily_slots[1]

\* Row j is scheduled and due at time t.
Due(j, t) ==
    /\ tweet_queue[j].status = "scheduled"
    /\ tweet_queue[j].scheduled_at # NULL
    /\ tweet_queue[j].scheduled_at <= t

Elems(seq) == {seq[k] : k \in 1..Len(seq)}

\* A statement of a schedule_approved_tweets call or of a dispatcher pass.
EngineStep(p) ==
    \/ SchedFetch(p) \/ SchedScan(p) \/ SoloSchedCheck(p) \/ SchedWrite(p)
    \/ DispatchFetch(p) \/ DispatchInsert(p)
    \/ \E ok \in BOOLEAN : DispatchPublish(p, ok)

\* C14: no automatic retry -- a failed or skipped entry is not returned by
\* get_pending_tweets, is not in the work list of any schedule_approved_tweets
\* call or dispatcher pass that starts while it is failed or skipped, and no
\* statement of such a call or pass changes its status or scheduled_at.
C14_NoAutoRetry ==
    [][\A j \in 1..Len(tweet_queue) :
          tweet_queue[j].status \in {"failed", "skipped"} =>
             /\ j \notin Elems(get_pending_tweets(tweet_queue, now))
             /\ \A p \in SoloProcs :
                   /\ SchedFetch(p) => j \notin Elems(local'[p].approved)
                   /\ DispatchFetch(p) => j \notin Elems(local'[p].pending)
                   /\ (/\ EngineStep(p)
                       /\ j \notin Elems(local[p].approved)
                       /\ j \notin Elems(local[p].pending))
                         => tweet_queue'[j] = tweet_queue[j]]_vars

\* C14 witness: with one entry failed and another skipped, a
\* schedule_approved_tweets call that read neither is about to write.
C14_Witness ==
    \E p \in SoloProcs :
        /\ local[p].pc = "write"
        /\ \E j \in 1..Len(tweet_queue) : \E k \in 1..Len(tweet_queue) :
              /\ tweet_queue[j].status = "failed"
              /\ tweet_queue[k].status = "skipped"
              /\ j \notin Elems(local[p].approved)
              /\ k \notin Elems(local[p].approved)

\* A text is in hand: it went through validate, against the stored rows.
Validated == text # <<>>

\* C15: a text whose normalized form equals that of a stored candidate is
\* rejected as a duplicate, however many candidates were stored since.
C15_NormalizedEqualIsDuplicate ==
    (/\ Validated
     /\ \E k \in 1..Len(tweet_candidates) :
           normalize_text(tweet_candidates[k].content) = normalize_text(text))
    => verdict = [ok |-> FALSE, reason |-> "duplicado"]

\* The stored text lies a hundred rows and more than a second back, and the
\* text in hand is written differently.
C15_Witness ==
    /\ Len(tweet_candidates) = 101
    /\ tweet_candidates[1].content = Base
    /\ tweet_candidates[1].created_at < tweet_candidates[2].created_at
    /\ text = BaseVariant
    /\ verdict = [ok |-> FALSE, reason |-> "duplicado"]

\* The similarity of the normalized forms of the text in hand and of row k
\* is at least 0.85.
Similar(k) ==
    LET a == normalize_text(text)
        b == normalize_text(tweet_candidates[k].content)
    IN  200 * LCS(a, b) >= 85 * (Len(a) + Len(b))

HashMatch ==
    \E k \in 1..Len(tweet_candidates) :
        tweet_candidates[k].content_hash = [sha256 |-> normalize_text(text)]

\* The rows created in the second of row k or later, row k included.
NotOlder(k) ==
    {j \in 1..Len(tweet_candidates) :
        tweet_candidates[j].created_at >= tweet_candidates[k].created_at}

\* Without a similar row and without a hash match the text is not rejected
\* as a duplicate.
NotSimilarNotDuplicate ==
    (/\ \A k \in 1..Len(tweet_candidates) : ~Similar(k)
     /\ ~HashMatch)
    => verdict.reason # "duplicado"

\* C16 as stated: a text similar to a stored candidate is rejected as a
\* duplicate regardless of how many candidates were stored after it, and a
\* text similar to none (and with no hash match) is not.
C16_SimilarAnyAge ==
    Validated =>
        /\ (\E k \in 1..Len(tweet_candidates) : Similar(k))
              => verdict = [ok |-> FALSE, reason |-> "duplicado"]
        /\ NotSimilarNotDuplicate

\* C16: a text similar to a stored candidate is rejected as a duplicate when
\* fewer than 100 candidates were created in that candidate's second or
\* later, and a text similar to none (and with no hash match) is not.
C16_SimilarInWindow ==
    Validated =>
        /\ (\E k \in 1..Len(tweet_candidates) :
               Cardinality(NotOlder(k)) <= 100 /\ Similar(k))
              => verdict = [ok |-> FALSE, reason |-> "duplicado"]
        /\ NotSimilarNotDuplicate

\* The similar candidate is the 100th most recent one and the similarity is
\* exactly 0.85.
C16_Witness ==
    /\ Len(tweet_candidates) = 100
    /\ tweet_candidates[1].content = Base
    /\ text = Near85
    /\ ~HashMatch
    /\ verdict = [ok |-> FALSE, reason |-> "duplicado"]

\* The reasons in the order of the checks.
RuleOrder ==
    <<"duplicado", "palabras prohibidas", "lenguaje agresivo",
      "contenido enganoso", "excede longitud maxima", "demasiado corto">>

\* Each URL of the text counted as 23 characters.
RECURSIVE SumLen(_)
SumLen(seqs) == IF seqs = <<>> THEN 0 ELSE Len(Head(seqs)) + SumLen(Tail(seqs))

EffectiveLength(t) ==
    Len(t) - SumLen(FindUrls(t, 1)) + 23 * Len(FindUrls(t, 1))

\* The text in hand violates rule r of RuleOrder; no more than 100 rows are
\* stored, so that the duplicate check sees them all.
Violates(r) ==
    CASE r = 1 -> is_duplicate(tweet_candidates, 1..Len(tweet_candidates), text)
      [] r = 2 -> contains_forbidden_words(text)
      [] r = 3 -> is_aggressive(text)
      [] r = 4 -> is_misleading(text)
      [] r = 5 -> EffectiveLength(text) > 280
      [] r = 6 -> Len(text) < 10

Violated == {r \in 1..6 : Violates(r)}

\* C17: validate gives the reason of the earliest violated rule in the order
\* duplicate, forbidden words, aggressive, misleading, too long, too short,
\* and accepts exactly when no rule is violated.
C17_FirstViolatedRule ==
    Validated =>
        IF Violated = {} THEN verdict = [ok |-> TRUE, reason |-> "None"]
        ELSE /\ ~verdict.ok
             /\ verdict.reason =
                    RuleOrder[CHOOSE r \in Violated : \A q \in Violated : r <= q]

\* A text that violates the first and the second rule.
C17_Witness ==
    /\ text = SpamPensar
    /\ {1, 2} \subseteq Violated
    /\ verdict = [ok |-> FALSE, reason |-> "duplicado"]

\* C18: with no other violation a text of effective length 280 or less is
\* accepted and one of effective length 281 or more is rejected as too long.
C18_MaxEffectiveInclusive ==
    (Validated /\ Violated \cap {1, 2, 3, 4} = {}) =>
        /\ (EffectiveLength(text) <= 280 /\ Len(text) >= 10) => verdict.ok
        /\ EffectiveLength(text) >= 281
              => verdict = [ok |-> FALSE, reason |-> "excede longitud maxima"]

\* A text of effective length 280 written with more than 280 characters.
C18_Witness ==
    /\ text = Url280
    /\ EffectiveLength(text) = 280
    /\ Len(text) > 280
    /\ verdict.ok

\* C19: the effective length is the raw length minus the lengths of the
\* URLs plus 23 for each URL.
C19_UrlCountsAs23 ==
    Validated => count_chars(text) = EffectiveLength(text)

\* A text with two URLs of different lengths, neither of 23 characters.
C19_Witness ==
    /\ text = TwoUrls
    /\ Len(FindUrls(text, 1)) = 2
    /\ Len(FindUrls(text, 1)[1]) # Len(FindUrls(text, 1)[2])
    /\ count_chars(text) = 50
    /\ verdict.ok

\* C20: with no other violation a text of raw length 10 or more is accepted
\* and one of raw length below 10 is rejected as too short, whatever its
\* effective length.
C20_MinRawLength ==
    (Validated /\ Violated \cap {1, 2, 3, 4, 5} = {}) =>
        /\ Len(text) >= 10 => verdict.ok
        /\ Len(text) < 10
              => verdict = [ok |-> FALSE, reason |-> "demasiado corto"]

\* A text of 9 characters whose effective length is 23.
C20_Witness ==
    /\ text = NineUrl
    /\ Len(text) = 9
    /\ EffectiveLength(text) >= 10
    /\ verdict = [ok |-> FALSE, reason |-> "demasiado corto"]

\* C21: in every reachable state of two interleaved generation processes no
\* two rows of tweet_candidates have the same content_hash; a text whose
\* validation passed while a row of the same normalized form was being
\* stored by the other process is not stored a second time.
C21_UniqueContentHash ==
    \A a \in 1..Len(tweet_candidates) : \A b \in 1..Len(tweet_candidates) :
        a # b =>
          tweet_candidates[a].content_hash # tweet_candidates[b].content_hash

\* Both validations passed, one row is stored, and the other process is
\* about to insert a text of the same normalized form.
C21_Witness ==
    \E p \in Procs : \E j \in 1..Len(tweet_candidates) :
        /\ local[p].pc = "save"
        /\ tweet_candidates[j].content_hash = hash_text(local[p].content)
        /\ tweet_candidates[j].content # local[p].content

\* C22: validate writes nothing: a step that validates a text leaves the
\* candidates, the queue, the published records and the log as they were,
\* and validate applied again to the same text on the store it left returns
\* the verdict it returned.
C22_ValidateReadOnly ==
    [][\A t \in RuleTexts :
          ValidateText(t) =>
            /\ UNCHANGED <<tweet_candidates, tweet_queue, tweets_publicados,
                           logs>>
            /\ \A W \in Windows(tweet_candidates') :
                  validate(tweet_candidates', W, t) = verdict']_vars

\* A text was validated against stored rows and rejected as their duplicate.
C22_Witness ==
    /\ text # <<>>
    /\ Len(tweet_candidates) >= 1
    /\ ~verdict.ok
    /\ verdict.reason = Rejected("duplicado").reason

C24_MarkFailedFootprint ==
    [][\A id \in QueueIds :
          (Exists(id) /\ mark_as_failed(id)) =>
            /\ tweet_queue'[id].status = "failed"
            /\ logs' = logs + 1
            /\ tweets_publicados' = tweets_publicados
            /\ tweet_queue'[id].scheduled_at = tweet_queue[id].scheduled_at
            /\ tweet_queue'[id].candidate_id = tweet_queue[id].candidate_id
            /\ Len(tweet_queue') = Len(tweet_queue)
            /\ \A j \in 1..Len(tweet_queue) :
                  j # id => tweet_queue'[j] = tweet_queue[j]]_vars

\* A scheduled entry was marked failed and keeps its slot, next to another
\* entry that is still scheduled; one log row was written.
C24_Witness ==
    \E j \in 1..Len(tweet_queue) : \E k \in 1..Len(tweet_queue) :
        /\ tweet_queue[j].status = "failed"
        /\ tweet_queue[j].scheduled_at # NULL
        /\ tweet_queue[k].status = "scheduled"
        /\ logs = 1
        /\ tweets_publicados = <<>>

\* C28: approve_tweet and skip_tweet on an existing id each return True and
\* set only that entry's status (to approved, to skipped): scheduled_at, the
\* candidate reference and every other row of every table stay as they were;
\* applied a second time, each leaves the status it left the first time.
C28_ApproveSkipFootprint ==
    [][\A id \in SoloQueueIds :
          /\ (Exists(id) /\ approve_tweet(id)) =>
                /\ approve_tweet_returns(id)
                /\ tweet_queue' = [tweet_queue EXCEPT ![id].status = "approved"]
                /\ UNCHANGED <<tweets_publicados, logs, tweet_candidates>>
                /\ SetStatus(tweet_queue', id, "approved") = tweet_queue'
          /\ (Exists(id) /\ skip_tweet(id)) =>
                /\ skip_tweet_returns(id)
                /\ tweet_queue' = [tweet_queue EXCEPT ![id].status = "skipped"]
                /\ UNCHANGED <<tweets_publicados, logs, tweet_candidates>>
                /\ SetStatus(tweet_queue', id, "skipped") = tweet_queue']_vars

\* An entry that had a slot was approved again and one was skipped: each
\* still has its slot.
C28_Witness ==
    \E j \in 1..Len(tweet_queue) : \E k \in 1..Len(tweet_queue) :
        /\ tweet_queue[j].status = "approved"
        /\ tweet_queue[j].scheduled_at # NULL
        /\ tweet_queue[k].status = "skipped"
        /\ tweet_queue[k].scheduled_at # NULL

\* C27: in every reachable state each queue entry with status drafted or
\* approved has a null scheduled_at and each entry with status scheduled has
\* a non-null scheduled_at.
C27_SlotIffScheduled ==
    \A j \in 1..Len(tweet_queue) :
        /\ tweet_queue[j].status \in {"drafted", "approved"} =>
              tweet_queue[j].scheduled_at = NULL
        /\ tweet_queue[j].status = "scheduled" =>
              tweet_queue[j].scheduled_at # NULL

\* C23: schedule_approved_tweets returns the number of entries it changed
\* from approved to scheduled: every write it counts finds its entry approved
\* with a null scheduled_at; when it returns, the count equals the number of
\* entries it read at its start and each of them is scheduled with a
\* non-null scheduled_at; without an approved entry it returns 0 and writes
\* nothing.
C23_ReturnsNewlyScheduled ==
    [][\A p \in Procs :
          LET l == local[p]
          IN  /\ (l.pc = "idle" /\ SchedFetch(p)
                    /\ SelectApproved(tweet_queue) = <<>>) =>
                    /\ local'[p] = IdleLocal
                    /\ UNCHANGED store
              /\ (l.pc = "write" /\ SchedWrite(p)
                    /\ ~SchedWriteOutcome(p).raised) =>
                    /\ tweet_queue[l.approved[l.i]].status = "approved"
                    /\ tweet_queue[l.approved[l.i]].scheduled_at = NULL
              /\ (l.pc = "write" /\ SchedWrite(p)
                    /\ SchedWriteOutcome(p).returned) =>
                    /\ SchedWriteOutcome(p).count = Len(l.approved)
                    /\ \A k \in 1..Len(l.approved) :
                          /\ tweet_queue'[l.approved[k]].status = "scheduled"
                          /\ tweet_queue'[l.approved[k]].scheduled_at # NULL]_vars

\* C30: every slot that schedule_approved_tweets writes for the second and
\* later entries of a batch is free and on a day below the cap at the moment
\* of the write: no other entry that is scheduled or posted holds that
\* timestamp, and the number of other scheduled or posted entries of the
\* slot's day is below the daily cap.
C30_LaterSlotsAvailable ==
    [][\A p \in Procs :
          LET l == local[p]
          IN  (l.pc = "write" /\ l.i >= 2 /\ SchedWrite(p)
                 /\ ~SchedWriteOutcome(p).raised) =>
                /\ \A j \in 1..Len(tweet_queue) :
                      (j # l.approved[l.i] /\ InSlotIndex(tweet_queue[j])) =>
                          tweet_queue[j].scheduled_at # l.next_slot
                /\ Cardinality({j \in 1..Len(tweet_queue) :
                        /\ j # l.approved[l.i]
                        /\ InSlotIndex(tweet_queue[j])
                        /\ tweet_queue[j].scheduled_at # NULL
                        /\ DateOf(tweet_queue[j].scheduled_at)
                              = DateOf(l.next_slot)})
                      < max_tweets_per_day]_vars

\* The pass goes on with the entry after the one it has just handled.
C25_Continues(l, l2) ==
    IF l.i < Len(l.pending)
    THEN /\ l2.pc = "publish"
         /\ l2.i = l.i + 1
         /\ l2.pending = l.pending
    ELSE l2 = IdleLocal

C29_Cursor(l) ==
    (l.scan_date - DateOf(l.current_time)) * Len(daily_slots) + l.scan_k

\* The slots later than from_time within the horizon that no scheduled or
\* posted entry holds.
C29_FreeInHorizon(l) ==
    {s \in {SlotAt(d, k) :
               d \in DateOf(l.current_time)
                       ..(DateOf(l.current_time) + HorizonDays - 1),
               k \in 1..Len(daily_slots)} :
        /\ s > l.current_time
        /\ CountAtSlot(tweet_queue, s) = 0}

\* C29: _get_next_available_slot examines at most HorizonDays times the
\* number of daily slots candidates and every store read either returns or
\* moves the cursor on; when a slot later than from_time within the horizon
\* is held by no scheduled or posted entry, the earliest such slot is
\* returned; and the slot returned is never held by a scheduled or posted
\* entry.
C29_BoundedSound ==
    [][\A p \in SoloProcs :
          LET l == local[p]
              l2 == local'[p]
          IN  (l.pc = "scan" /\ SchedScan(p)) =>
                /\ C29_Cursor(l) \in 1..HorizonSlots
                /\ l2.pc = "scan" => C29_Cursor(l2) = C29_Cursor(l) + 1
                /\ l2.pc = "check" =>
                      /\ CountAtSlot(tweet_queue, l2.next_slot) = 0
                      /\ C29_FreeInHorizon(l) # {} =>
                            /\ l2.next_slot \in C29_FreeInHorizon(l)
                            /\ \A s \in C29_FreeInHorizon(l) :
                                  l2.next_slot <= s]_vars

\* C31: schedule_approved_tweets touches only its work set. The list it
\* reads is exactly the entries that are approved with a null scheduled_at;
\* no statement of the call changes a candidate, a published record or the
\* log; its reads change nothing, and each write changes the one entry of
\* the list under the cursor and no other row. When the call returns, none
\* of the entries it read is left for a second call, and a call that finds
\* no such entry returns 0 and changes nothing.
C31_OnlyWorkSet ==
    [][\A p \in SoloProcs :
          LET l == local[p]
          IN  /\ (l.pc = "idle" /\ SchedFetch(p)) =>
                    /\ UNCHANGED <<store, tweet_candidates>>
                    /\ Elems(local'[p].approved)
                          = {j \in 1..Len(tweet_queue) :
                                /\ tweet_queue[j].status = "approved"
                                /\ tweet_queue[j].scheduled_at = NULL}
                    /\ local'[p].approved = <<>> => local'[p] = IdleLocal
              /\ (l.pc = "scan" /\ SchedScan(p)) =>
                    UNCHANGED <<store, tweet_candidates>>
              /\ (l.pc = "check" /\ SoloSchedCheck(p)) =>
                    UNCHANGED <<store, tweet_candidates>>
              /\ (l.pc = "write" /\ SchedWrite(p)) =>
                    /\ UNCHANGED <<tweets_publicados, logs, tweet_candidates>>
                    /\ Len(tweet_queue') = Len(tweet_queue)
                    /\ \A j \in 1..Len(tweet_queue) :
                          j # l.approved[l.i] =>
                              tweet_queue'[j] = tweet_queue[j]
                    /\ SchedWriteOutcome(p).returned =>
                          \A k \in 1..Len(l.approved) :
                              l.approved[k]
                                \notin Elems(SelectApproved(tweet_queue'))]_vars

\* A call has scheduled the approved entry and returned; the entry that was
\* drafted when the call read the queue is still drafted, without a slot.
C31_Witness ==
    /\ \A p \in SoloProcs : local[p].pc = "idle"
    /\ \E j \in 1..Len(tweet_queue) : \E k \in 1..Len(tweet_queue) :
          /\ tweet_queue[j].status = "scheduled"
          /\ tweet_queue[k].status = "drafted"
          /\ tweet_queue[k].scheduled_at = NULL

\* C32: with schedule_approved_tweets called again and again, no entry stays
\* approved for ever: an approved entry is eventually scheduled, or the
\* operator has meanwhile taken it out of approved.
C32_ApprovedEventuallyScheduled ==
    \A id \in LiveQueueIds :
        (Exists(id) /\ tweet_queue[id].status = "approved")
            ~> (Exists(id) /\ tweet_queue[id].status # "approved")

C34_AtMostOncePublication ==
    LET done == {j \in 1..Len(tweet_queue) :
                    tweet_queue[j].status \in {"posted", "failed"}}
        posted == {j \in 1..Len(tweet_queue) :
                    tweet_queue[j].status = "posted"}
        inserting == {p \in Procs : local[p].pc = "dinsert"}
    IN  /\ Len(tweets_publicados) + logs + Cardinality(inserting)
              <= Cardinality(done)
        /\ Len(tweets_publicados) <= Cardinality(posted)

\* C35: when a write of schedule_approved_tweets is rejected in the middle of
\* a batch, nothing is rolled back: the entries the call assigned before are
\* still scheduled with the slots it gave them, the entry whose write was
\* rejected and all later ones of the batch are still approved with a null
\* scheduled_at, and no two scheduled or posted entries share a timestamp.
C35_PartialBatchCommitted ==
    [][\A p \in SoloProcs :
          LET l == local[p]
          IN  (/\ l.pc = "write"
               /\ PendingWrite(p) = IntegrityError
               /\ SchedWrite(p))
                  => /\ local'[p] = IdleLocal
                     /\ \A k \in 1..(l.i - 1) :
                           /\ tweet_queue'[l.approved[k]].status = "scheduled"
                           /\ tweet_queue'[l.approved[k]].scheduled_at
                                 = l.assigned[k]
                     /\ \A k \in l.i..Len(l.approved) :
                           /\ tweet_queue'[l.approved[k]].status = "approved"
                           /\ tweet_queue'[l.approved[k]].scheduled_at = NULL
                     /\ \A a \in 1..Len(tweet_queue') :
                           \A b \in 1..Len(tweet_queue') :
                               (/\ a # b
                                /\ InSlotIndex(tweet_queue'[a])
                                /\ InSlotIndex(tweet_queue'[b]))
                                   => tweet_queue'[a].scheduled_at
                                        # tweet_queue'[b].scheduled_at]_vars

\* The call has written the first entry of a batch of two and the write of
\* the second is about to be rejected.
C35_Witness ==
    \E p \in SoloProcs :
        /\ local[p].pc = "write"
        /\ local[p].i = 2
        /\ Len(local[p].approved) = 2
        /\ tweet_queue[local[p].approved[1]].status = "scheduled"
        /\ PendingWrite(p) = IntegrityError

C37_Holders(q, id, slot) ==
    {j \in 1..Len(q) :
        /\ j # id
        /\ q[j].scheduled_at = slot
        /\ q[j].status \in {"scheduled", "posted"}}

\* C37: a slot is released when its entry leaves scheduled without being
\* posted. When a scheduled entry is skipped or marked failed it keeps its
\* scheduled_at, and from then on neither the slot query nor the day count
\* sees it, and the index accepts its timestamp for any other entry unless
\* a third entry holds it; and when schedule_approved_tweets writes a
\* timestamp that a failed or skipped entry still carries, the write goes
\* through and no two scheduled or posted entries share a timestamp.
C37_SlotReleased ==
    [][/\ \A id \in SoloQueueIds :
            (/\ Exists(id)
             /\ tweet_queue[id].status = "scheduled"
             /\ tweet_queue'[id].status \in {"failed", "skipped"})
                => LET slot == tweet_queue[id].scheduled_at
                   IN  /\ tweet_queue'[id].scheduled_at = slot
                       /\ CountAtSlot(tweet_queue', slot)
                             = Cardinality(C37_Holders(tweet_queue, id, slot))
                       /\ CountOnDay(tweet_queue', DateOf(slot))
                             = CountOnDay(tweet_queue, DateOf(slot)) - 1
                       /\ \A other \in 1..Len(tweet_queue) :
                             (other # id
                                /\ C37_Holders(tweet_queue, other, slot)
                                      \subseteq {id})
                                => UpdateScheduled(tweet_queue', other, slot)
                                     # IntegrityError
       /\ \A p \in SoloProcs :
            LET l == local[p]
            IN  (/\ l.pc = "write"
                 /\ SchedWrite(p)
                 /\ C37_Holders(tweet_queue, l.approved[l.i], l.next_slot)
                       = {}
                 /\ \E j \in 1..Len(tweet_queue) :
                       /\ j # l.approved[l.i]
                       /\ tweet_queue[j].scheduled_at = l.next_slot
                       /\ tweet_queue[j].status \in {"failed", "skipped"})
                    => /\ tweet_queue'[l.approved[l.i]].status = "scheduled"
                       /\ tweet_queue'[l.approved[l.i]].scheduled_at
                             = l.next_slot
                       /\ \A a \in 1..Len(tweet_queue') :
                             C37_Holders(tweet_queue', a,
                                         tweet_queue'[a].scheduled_at) # {}
                               => tweet_queue'[a].status
                                    \notin {"scheduled", "posted"}]_vars

\* A later call has given another entry the timestamp that a skipped (or
\* failed) entry still carries.
C37_Witness ==
    \E a \in 1..Len(tweet_queue) : \E b \in 1..Len(tweet_queue) :
        /\ tweet_queue[a].status \in {"failed", "skipped"}
        /\ tweet_queue[a].scheduled_at # NULL
        /\ tweet_queue[b].status = "scheduled"
        /\ tweet_queue[b].scheduled_at = tweet_queue[a].scheduled_at
        /\ tweet_queue[b].created_at > tweet_queue[a].created_at

\* The days that hold more scheduled or posted entries than the daily cap.
C38_DaysOverCap(q) ==
    {DateOf(q[j].scheduled_at) : j \in {k \in 1..Len(q) :
        /\ q[k].scheduled_at # NULL
        /\ CountOnDay(q, DateOf(q[k].scheduled_at)) > MAX_TWEETS_PER_DAY}}

\* C38: rescheduling respects slot exclusivity and the daily cap. The UPDATE
\* of a reschedule that gives a scheduled entry an instant held by another
\* scheduled or posted entry is rejected and leaves the queue as it was; and
\* no reschedule, by the command or by the web request, puts a day over the
\* cap that was not over it before.
C38_RescheduleRespectsSlots ==
    [][/\ \A p \in SoloProcs :
            (local[p].pc = "reschedule" /\ RescheduleWrite(p)) =>
                LET id == local[p].queue_id
                    at == local[p].next_slot
                IN  /\ (/\ tweet_queue[id].status = "scheduled"
                         /\ \E j \in 1..Len(tweet_queue) :
                               /\ j # id
                               /\ tweet_queue[j].scheduled_at = at
                               /\ tweet_queue[j].status
                                     \in {"scheduled", "posted"})
                            => tweet_queue' = tweet_queue
                    /\ C38_DaysOverCap(tweet_queue')
                          \subseteq C38_DaysOverCap(tweet_queue)
       /\ (\E id \in 1..(RescheduleHeld + 1) : \E at \in RescheduleInstants :
               reschedule_post(id, at))
            => C38_DaysOverCap(tweet_queue')
                  \subseteq C38_DaysOverCap(tweet_queue)]_vars

====
